---- MODULE Spec2Model ----
(***************************************************************************)
(* Routing core of the subway route recommender: the network graph built   *)
(* from the static line and transfer tables (subway_graph.py), the         *)
(* Dijkstra search over (station, line) nodes (dijkstra_router.py), the    *)
(* three-route synthesizer (route_optimizer.py) and the score calculator   *)
(* (score_calculator.py).                                                  *)
(*                                                                         *)
(* Stations and lines are numbered by their position in the sorted list of *)
(* their names (StationNames, LineNames), so that the order of the numbers *)
(* is the order Python gives the names when it compares heap entries and   *)
(* when it sorts the lines of a station.  Edge costs and distances are     *)
(* floats, computed, added and compared as Python does; the properties     *)
(* that re-score a path speak of its cost as an exact number, in           *)
(* thousandths.                                                            *)
(***************************************************************************)
EXTENDS Integers, Sequences, FiniteSets, TLC

StationNames ==
  <<
    "110th Street", "125th Street", "145th Street", "14th Street",
    "14th Street-Broadway-Lafayette", "14th Street-Union Square", "168th Street",
    "175th Street", "18th Street", "1st Avenue", "23rd Street", "23rd Street-Broadway",
    "23rd Street-Broadway-Lafayette", "23rd Street-Lexington", "28th Street",
    "28th Street-Broadway", "28th Street-Lexington", "30th Avenue", "33rd Street",
    "34th Street", "34th Street-Herald Square", "34th Street-Penn Station",
    "42nd Street-Port Authority", "42nd Street-Times Square", "49th Street", "57th Street",
    "59th Street", "59th Street-Columbus Circle", "6th Avenue", "72nd Street", "79th Street",
    "86th Street", "8th Avenue-14th Street", "8th Street", "96th Street", "Astoria Boulevard",
    "Astoria-Ditmars Boulevard", "Bedford Avenue", "Bedford-Stuyvesant", "Bergen Street",
    "Bowling Green", "Broadway", "Broadway-Lafayette", "Brooklyn Bridge-City Hall",
    "Canal Street", "Carroll Street", "Chambers Street", "Classon Avenue",
    "Clinton-Washington", "Cortlandt Street", "Court Square", "Court Street",
    "Flushing-Main Street", "Forest Hills-71st Avenue", "Franklin Street", "Fulton Street",
    "Graham Avenue", "Grand Central-42nd Street", "Greenpoint Avenue", "Herald Square",
    "High Street-Brooklyn Bridge", "Houston Street", "Hoyt-Schermerhorn",
    "Inwood-207th Street", "Jackson Heights-Roosevelt Avenue", "Jamaica Center-Parsons/Archer",
    "Jay Street-MetroTech", "Jefferson Street", "Kingston-Throop Avenues", "Lexington Avenue",
    "Lorimer Street", "Metropolitan Avenue", "Myrtle Avenue", "Myrtle-Willoughby Avenues",
    "Nassau Avenue", "Nostrand Avenue", "Park Place", "Queens Plaza", "Queensboro Plaza",
    "Rector Street", "South Ferry", "Spring Street", "Union Square-14th Street", "Wall Street",
    "West 4th Street", "Whitehall Terminal", "Woodside", "World Trade Center"
  >>

LineNames ==
  <<
    "1", "2", "3", "4", "5", "6", "7", "A", "C", "E", "F", "G", "L", "N", "Q", "R", "S", "W"
  >>

SUBWAY_LINES ==
  <<
    [line |-> 1, stations |->
      <<
        81, 80, 50, 47, 55, 45, 82, 62, 4, 9, 11, 15, 21, 24, 25, 28, 30, 31
      >>],
    [line |-> 2, stations |->
      <<
        41, 84, 56, 77, 47, 55, 45, 82, 62, 4, 9, 11, 15, 21, 24, 25, 28, 30
      >>],
    [line |-> 3, stations |->
      <<
        41, 84, 56, 77, 47, 55, 45, 82, 62, 4, 9, 11, 15, 21, 24, 25, 28, 30
      >>],
    [line |-> 4, stations |->
      <<
        41, 84, 56, 77, 47, 44, 82, 45, 6, 9, 14, 17, 19, 58, 27, 32
      >>],
    [line |-> 5, stations |->
      <<
        41, 84, 56, 77, 47, 44, 82, 45, 6, 9, 14, 17, 19, 58, 27, 32
      >>],
    [line |-> 6, stations |->
      <<
        41, 84, 56, 77, 47, 44, 82, 45, 6, 9, 14, 17, 19, 58, 27
      >>],
    [line |-> 8, stations |->
      <<
        64, 8, 3, 2, 28, 23, 22, 4, 33, 85, 82, 45, 47, 56, 67, 61, 63, 46, 76, 69
      >>],
    [line |-> 9, stations |->
      <<
        7, 3, 2, 1, 30, 28, 23, 22, 4, 33, 85, 82, 45, 47, 56, 67, 63, 46, 76
      >>],
    [line |-> 10, stations |->
      <<
        66, 54, 65, 23, 22, 4, 33, 85, 82, 45, 88
      >>],
    [line |-> 11, stations |->
      <<
        66, 54, 65, 13, 5, 85, 43, 82, 45, 47, 67, 46, 52, 40, 63
      >>],
    [line |-> 14, stations |->
      <<
        37, 18, 36, 79, 70, 60, 16, 12, 4, 34, 83, 45, 47, 50, 80, 86
      >>],
    [line |-> 15, stations |->
      <<
        35, 30, 26, 24, 20, 60, 16, 12, 4, 45, 47, 50, 41
      >>],
    [line |-> 16, stations |->
      <<
        54, 65, 79, 70, 60, 16, 12, 4, 34, 45, 47, 50, 80, 86
      >>],
    [line |-> 18, stations |->
      <<
        37, 18, 36, 79, 70, 60, 16, 12, 4, 45, 47, 50, 86
      >>],
    [line |-> 13, stations |->
      <<
        33, 29, 83, 10, 38, 71, 57, 68, 73
      >>],
    [line |-> 12, stations |->
      <<
        51, 59, 75, 72, 42, 74, 49, 48, 76, 39, 63, 46, 56
      >>],
    [line |-> 17, stations |->
      <<
        24, 58
      >>],
    [line |-> 7, stations |->
      <<
        53, 87, 65, 78, 70, 58, 21, 15, 11, 9, 4, 24
      >>]
  >>

TRANSFER_POINTS ==
  <<
    [from |-> <<45, 1>>, to |->
      <<
        <<45, 2, 1>>, <<45, 3, 1>>, <<45, 4, 2>>, <<45, 5, 2>>, <<45, 6, 2>>, <<45, 8, 2>>,
        <<45, 9, 2>>
      >>],
    [from |-> <<45, 14>>, to |->
      <<
        <<45, 16, 1>>, <<45, 18, 1>>, <<45, 8, 2>>, <<45, 9, 2>>, <<45, 1, 2>>, <<45, 2, 2>>,
        <<45, 6, 2>>
      >>],
    [from |-> <<24, 1>>, to |->
      <<
        <<24, 2, 1>>, <<24, 3, 1>>, <<24, 15, 2>>, <<24, 14, 2>>, <<24, 16, 2>>, <<24, 18, 2>>,
        <<24, 17, 1>>, <<58, 4, 3>>, <<58, 5, 3>>, <<58, 6, 3>>, <<58, 7, 3>>
      >>],
    [from |-> <<24, 17>>, to |->
      <<
        <<58, 4, 1>>, <<58, 5, 1>>, <<58, 6, 1>>, <<58, 7, 1>>
      >>],
    [from |-> <<58, 4>>, to |->
      <<
        <<24, 1, 3>>, <<24, 3, 3>>, <<24, 17, 1>>
      >>],
    [from |-> <<58, 5>>, to |->
      <<
        <<24, 1, 3>>, <<24, 3, 3>>, <<24, 17, 1>>
      >>],
    [from |-> <<58, 6>>, to |->
      <<
        <<24, 1, 3>>, <<24, 3, 3>>, <<24, 17, 1>>
      >>],
    [from |-> <<58, 7>>, to |->
      <<
        <<24, 1, 3>>, <<24, 17, 1>>
      >>],
    [from |-> <<58, 17>>, to |->
      <<
        <<24, 1, 1>>, <<24, 3, 1>>
      >>],
    [from |-> <<4, 1>>, to |->
      <<
        <<4, 2, 1>>, <<4, 3, 1>>, <<6, 4, 2>>, <<6, 5, 2>>, <<6, 6, 2>>, <<6, 13, 1>>,
        <<4, 14, 2>>, <<4, 15, 2>>, <<4, 16, 2>>, <<4, 18, 2>>, <<33, 8, 2>>, <<33, 9, 2>>,
        <<33, 10, 2>>, <<33, 13, 2>>
      >>],
    [from |-> <<67, 8>>, to |->
      <<
        <<67, 9, 1>>, <<67, 11, 2>>, <<67, 16, 2>>, <<61, 8, 1>>
      >>],
    [from |-> <<67, 9>>, to |->
      <<
        <<67, 8, 1>>, <<67, 11, 2>>, <<67, 16, 2>>
      >>],
    [from |-> <<56, 2>>, to |->
      <<
        <<56, 3, 1>>, <<56, 4, 1>>, <<56, 5, 1>>, <<56, 6, 1>>, <<56, 8, 1>>, <<56, 9, 1>>
      >>],
    [from |-> <<56, 3>>, to |->
      <<
        <<56, 2, 1>>, <<56, 4, 1>>, <<56, 5, 1>>, <<56, 6, 1>>, <<56, 8, 1>>, <<56, 9, 1>>
      >>],
    [from |-> <<56, 4>>, to |->
      <<
        <<56, 2, 1>>, <<56, 3, 1>>, <<56, 5, 1>>, <<56, 6, 1>>, <<56, 8, 1>>, <<56, 9, 1>>
      >>],
    [from |-> <<56, 5>>, to |->
      <<
        <<56, 2, 1>>, <<56, 3, 1>>, <<56, 4, 1>>, <<56, 6, 1>>, <<56, 8, 1>>, <<56, 9, 1>>
      >>],
    [from |-> <<56, 6>>, to |->
      <<
        <<56, 2, 1>>, <<56, 3, 1>>, <<56, 4, 1>>, <<56, 5, 1>>, <<56, 8, 1>>, <<56, 9, 1>>
      >>],
    [from |-> <<56, 8>>, to |->
      <<
        <<56, 9, 1>>, <<56, 2, 1>>, <<56, 3, 1>>, <<56, 4, 1>>, <<56, 5, 1>>, <<56, 6, 1>>
      >>],
    [from |-> <<56, 9>>, to |->
      <<
        <<56, 8, 1>>, <<56, 2, 1>>, <<56, 3, 1>>, <<56, 4, 1>>, <<56, 5, 1>>, <<56, 6, 1>>
      >>],
    [from |-> <<45, 8>>, to |->
      <<
        <<45, 9, 1>>, <<45, 1, 2>>, <<45, 2, 2>>, <<45, 4, 2>>, <<45, 5, 2>>, <<45, 6, 2>>,
        <<67, 8, 3>>
      >>],
    [from |-> <<45, 9>>, to |->
      <<
        <<45, 8, 1>>, <<45, 1, 2>>, <<45, 2, 2>>, <<45, 4, 2>>, <<45, 5, 2>>, <<45, 6, 2>>,
        <<67, 9, 3>>
      >>]
  >>

(***************************************************************************)
(* SubwayGraph                                                             *)
(***************************************************************************)

\* three minutes at every third pair, the first and the last included
TravelTimeEveryThird(i, n) ==
  IF i % 3 = 0 THEN 3 ELSE 2

\* travel time of the pair at 0-based index i of a line with n stations
TravelTime(i, n) ==
  IF i > 0 /\ i < n - 2 /\ i % 3 = 0 THEN 3 ELSE 2

\* the appends SubwayGraph._build_graph makes for one line, in order
RECURSIVE LineAppends(_, _, _)
LineAppends(line, stations, i) ==
  IF i > Len(stations) - 2 THEN << >>
  ELSE LET cur == stations[i + 1]
           nxt == stations[i + 2]
           tt  == TravelTime(i, Len(stations))
       IN  << [key |-> <<cur, line>>, edge |-> <<nxt, line, tt>>],
              [key |-> <<nxt, line>>, edge |-> <<cur, line, tt>>] >>
           \o LineAppends(line, stations, i + 1)

RECURSIVE AllLineAppends(_, _)
AllLineAppends(lines, k) ==
  IF k > Len(lines) THEN << >>
  ELSE LineAppends(lines[k].line, lines[k].stations, 0)
       \o AllLineAppends(lines, k + 1)

\* the appends made for the transfer table, in order
RECURSIVE TransferAppends(_, _)
TransferAppends(transfers, k) ==
  IF k > Len(transfers) THEN << >>
  ELSE [j \in 1..Len(transfers[k].to) |->
          [key |-> transfers[k].from, edge |-> transfers[k].to[j]]]
       \o TransferAppends(transfers, k + 1)

\* SubwayGraph._build_graph: (station, line) -> list of (station, line, minutes)
BuildGraph(lines, transfers) ==
  LET apps == AllLineAppends(lines, 1) \o TransferAppends(transfers, 1)
      keys == {apps[j].key : j \in 1..Len(apps)}
                 \cup {transfers[k].from : k \in 1..Len(transfers)}
      pick(key) == SelectSeq(apps, LAMBDA a : a.key = key)
  IN  [key \in keys |->
         LET p == pick(key) IN [j \in 1..Len(p) |-> p[j].edge]]

\* SubwayGraph._get_all_stations (as a set; the source keeps it sorted)
GetAllStations(lines) ==
  UNION {{lines[k].stations[j] : j \in 1..Len(lines[k].stations)} :
           k \in 1..Len(lines)}

graph == BuildGraph(SUBWAY_LINES, TRANSFER_POINTS)

all_stations == GetAllStations(SUBWAY_LINES)

\* a lookup that enters the key it does not find, as dict.setdefault does
AdjacentWritesMissingKey(station, line) ==
  IF <<station, line>> \in DOMAIN graph THEN << >>
  ELSE (<<station, line>> :> << >>)

\* what get_adjacent_stations writes to the graph: "self.graph.get(key, [])"
\* writes nothing
AdjacentWrites(station, line) == << >>

get_adjacent_stations(station, line) ==
  IF <<station, line>> \in DOMAIN graph THEN graph[<<station, line>>] ELSE << >>

\* the set of lines at a station; the source returns it as a sorted list
get_available_lines(station) ==
  {key[2] : key \in {k \in DOMAIN graph : k[1] = station}}

validate_station(station) == station \in all_stations

(***************************************************************************)
(* Python floats.  The magnitude of a float is modelled as a non-negative  *)
(* IEEE-754 double [m, e] of value m * 2^e: m is the 53-bit significand    *)
(* with its top bit set, or the empty number for 0.0.  Every               *)
(* operation rounds to nearest, ties to even, as the hardware does.        *)
(* Naturals wider than a machine word are sequences of 15-bit limbs, the   *)
(* least significant first and the most significant not 0.                 *)
(***************************************************************************)

Base == 2 ^ 15

Zeros(k) == [j \in 1..k |-> 0]

Limb(a, i) == IF i <= Len(a) THEN a[i] ELSE 0

\* the limbs without their most significant zeros
Norm(a) ==
  IF \A i \in 1..Len(a) : a[i] = 0 THEN << >>
  ELSE SubSeq(a, 1, CHOOSE i \in 1..Len(a) :
                      a[i] # 0 /\ \A j \in (i + 1)..Len(a) : a[j] = 0)

\* the limbs of a natural number below 2^31
LimbsOf(n) == Norm(<<n % Base, (n \div Base) % Base, n \div (Base * Base)>>)

\* a + b, from limb i on with a carry
RECURSIVE AddFrom(_, _, _, _)
AddFrom(a, b, i, carry) ==
  IF i > Len(a) /\ i > Len(b) THEN (IF carry = 0 THEN << >> ELSE <<carry>>)
  ELSE LET s == Limb(a, i) + Limb(b, i) + carry
       IN  <<s % Base>> \o AddFrom(a, b, i + 1, s \div Base)

AddLimbs(a, b) == AddFrom(a, b, 1, 0)

\* a * k for 0 < k < Base, from limb i on with a carry
RECURSIVE MulFrom(_, _, _, _)
MulFrom(a, k, i, carry) ==
  IF i > Len(a) THEN (IF carry = 0 THEN << >> ELSE <<carry>>)
  ELSE LET s == a[i] * k + carry
       IN  <<s % Base>> \o MulFrom(a, k, i + 1, s \div Base)

\* a * 2^k
ShiftLeft(a, k) ==
  IF a = << >> THEN << >> ELSE Zeros(k \div 15) \o MulFrom(a, 2 ^ (k % 15), 1, 0)

\* a divided by d for 0 < d < Base, from limb i down with a remainder:
\* quotient limbs and remainder
RECURSIVE DivFrom(_, _, _, _)
DivFrom(a, d, i, rem) ==
  IF i = 0 THEN [q |-> << >>, r |-> rem]
  ELSE LET v == rem * Base + a[i]
           p == DivFrom(a, d, i - 1, v % d)
       IN  [q |-> Append(p.q, v \div d), r |-> p.r]

DivSmall(a, d) == DivFrom(a, d, Len(a), 0)

\* floor(a / 2^k)
ShiftRight(a, k) ==
  Norm(DivSmall(SubSeq(a, k \div 15 + 1, Len(a)), 2 ^ (k % 15)).q)

\* the number of bits of a
BitLen(a) ==
  IF a = << >> THEN 0
  ELSE 15 * (Len(a) - 1) + Cardinality({k \in 0..14 : 2 ^ k <= a[Len(a)]})

\* bit i of a, bit 0 the least significant
Bit(a, i) == (Limb(a, i \div 15 + 1) \div 2 ^ (i % 15)) % 2

DoubleZero == [m |-> << >>, e |-> 0]

\* the double of the significand inc, of 53 or 54 bits, at the exponent e
Carried(inc, e) ==
  IF BitLen(inc) = 54 THEN [m |-> ShiftRight(inc, 1), e |-> e + 1]
  ELSE [m |-> inc, e |-> e]

\* b of more than 53 bits rounded to its 53 leading bits top, s bits being
\* dropped: to nearest, and to the even significand when halfway
RoundTop(b, top, s, sticky, e) ==
  Carried(IF /\ Bit(b, s - 1) = 1
             /\ \/ sticky
                \/ \E i \in 0..(s - 2) : Bit(b, i) = 1
                \/ Bit(top, 0) = 1
          THEN AddLimbs(top, <<1>>)
          ELSE top,
          e + s)

\* RoundToDouble for b of n bits
RoundBits(b, n, sticky, e) ==
  IF n = 0 THEN DoubleZero
  ELSE IF n <= 53 THEN [m |-> ShiftLeft(b, 53 - n), e |-> e - (53 - n)]
  ELSE RoundTop(b, ShiftRight(b, n - 53), n - 53, sticky, e)

\* the double nearest to (b + f) * 2^e, where f is a fraction in [0, 1) that
\* is non-zero exactly when sticky holds; sticky is only passed for b of
\* more than 54 bits
RoundToDouble(b, sticky, e) == RoundBits(b, BitLen(b), sticky, e)

\* float(k) of a non-negative int
DoubleOfInt(k) == RoundToDouble(LimbsOf(k), FALSE, 0)

\* the double of a quotient p of limbs with its remainder, at the exponent e
DivRounded(p, e) == RoundToDouble(Norm(p.q), p.r # 0, e)

\* x / d with the significand of x taken pad bits up, which leaves the
\* quotient more than 54 bits
DivPadded(x, d, pad) == DivRounded(DivSmall(ShiftLeft(x.m, pad), d), x.e - pad)

\* x / d for a float x and a positive int d
DoubleDivInt(x, d) ==
  IF x.m = << >> THEN DoubleZero
  ELSE DivPadded(x, d, BitLen(LimbsOf(d)) + 2)

\* a - b for a >= b, from limb i on with a borrow
RECURSIVE SubFrom(_, _, _, _)
SubFrom(a, b, i, borrow) ==
  IF i > Len(a) THEN << >>
  ELSE LET s == a[i] - Limb(b, i) - borrow
       IN  <<(s + Base) % Base>> \o SubFrom(a, b, i + 1, IF s < 0 THEN 1 ELSE 0)

SubLimbs(a, b) == Norm(SubFrom(a, b, 1, 0))

\* a * b, from limb j of b on
RECURSIVE MulLimbsFrom(_, _, _)
MulLimbsFrom(a, b, j) ==
  IF j > Len(b) THEN << >>
  ELSE AddLimbs(Zeros(j - 1) \o MulFrom(a, b[j], 1, 0), MulLimbsFrom(a, b, j + 1))

MulLimbs(a, b) == Norm(MulLimbsFrom(a, b, 1))

\* x - y for x >= y
DoubleSub(x, y) ==
  IF y.m = << >> THEN x
  ELSE LET lo == IF x.e <= y.e THEN x.e ELSE y.e
       IN  IF x.e - y.e > 54 THEN x
           ELSE RoundToDouble(SubLimbs(ShiftLeft(x.m, x.e - lo), ShiftLeft(y.m, y.e - lo)),
                              FALSE, lo)

\* x * y
DoubleMul(x, y) ==
  IF x.m = << >> \/ y.m = << >> THEN DoubleZero
  ELSE RoundToDouble(MulLimbs(x.m, y.m), FALSE, x.e + y.e)

(***************************************************************************)
(* Edge costs and distances are floats of either sign.  A cost is kept as  *)
(* three integers <<x, h, l>> whose order, read left to right, is the      *)
(* order of the floats: 0.0 is <<0, 0, 0>>, and the double s * m * 2^e,    *)
(* with s = 1 or -1 and m its 53-bit significand, is                       *)
(* <<s * (e + 1075), s * (m \div 2^30), s * (m % 2^30)>>.                  *)
(***************************************************************************)

CostZero == <<0, 0, 0>>

\* the sign and the magnitude of a cost
CostIsNegative(c) == c[1] < 0
Magnitude(c) ==
  LET h == IF c[2] < 0 THEN -c[2] ELSE c[2]
      l == IF c[3] < 0 THEN -c[3] ELSE c[3]
  IN  [m |-> Norm(<<l % Base, l \div Base, h % Base, h \div Base>>),
       e |-> (IF c[1] < 0 THEN -c[1] ELSE c[1]) - 1075]

\* the cost of a sign and a magnitude
Cost(negative, x) ==
  IF x.m = << >> THEN CostZero
  ELSE LET s == IF negative THEN -1 ELSE 1
       IN  <<s * (x.e + 1075), s * (x.m[4] * Base + x.m[3]), s * (x.m[2] * Base + x.m[1])>>

\* float(k) of an int
CostOfInt(k) == Cost(k < 0, DoubleOfInt(IF k < 0 THEN -k ELSE k))

\* a < b and a <= b
CostLess(a, b) ==
  \/ a[1] < b[1]
  \/ a[1] = b[1] /\ a[2] < b[2]
  \/ a[1] = b[1] /\ a[2] = b[2] /\ a[3] < b[3]
CostLeq(a, b) == ~CostLess(b, a)

\* the cost of the significand h * 2^30 + l, which is at least 2^52 and below
\* 2^53, at the exponent of x, rounded to nearest with ties to even: guard is
\* the bit below the significand and sticky tells whether bits below it are set
RoundedCost(x, h, l, guard, sticky) ==
  IF guard = 0 \/ (~sticky /\ l % 2 = 0) THEN <<x, h, l>>
  ELSE IF l + 1 < 2 ^ 30 THEN <<x, h, l + 1>>
  ELSE IF h + 1 < 2 ^ 23 THEN <<x, h + 1, 0>>
  ELSE <<x + 1, 2 ^ 22, 0>>

\* the cost of the significand h * 2^30 + l, of 53 or 54 bits, at the
\* exponent of x
Normalised(x, h, l, guard, sticky) ==
  IF h < 2 ^ 23 THEN RoundedCost(x, h, l, guard, sticky)
  ELSE RoundedCost(x + 1, h \div 2, l \div 2 + (h % 2) * 2 ^ 29, l % 2,
                   guard = 1 \/ sticky)

\* the significand of a plus qh * 2^30 + ql
AddWords(a, qh, ql, guard, sticky) ==
  Normalised(a[1], a[2] + qh + (a[3] + ql) \div 2 ^ 30, (a[3] + ql) % 2 ^ 30,
             guard, sticky)

\* bit k - 1 of the word w, and whether a bit below it is set
GuardBit(w, k) == IF k = 0 THEN 0 ELSE (w \div 2 ^ (k - 1)) % 2
BelowGuard(w, k) == k # 0 /\ w % 2 ^ (k - 1) # 0

\* a + b for costs above 0.0, the exponent of a not below that of b and at
\* most 54 above it: the significand of b is shifted d bits down to the
\* exponent of a and added, and the sum is rounded
AddShifted(a, b, d) ==
  IF d <= 30
  THEN AddWords(a, b[2] \div 2 ^ d, b[3] \div 2 ^ d + (b[2] % 2 ^ d) * 2 ^ (30 - d),
                GuardBit(b[3], d), BelowGuard(b[3], d))
  ELSE AddWords(a, 0, b[2] \div 2 ^ (d - 30),
                GuardBit(b[2], d - 30), BelowGuard(b[2], d - 30) \/ b[3] # 0)

AddAligned(a, b) == AddShifted(a, b, a[1] - b[1])

\* -a and the absolute value of a
CostNeg(a) == <<-a[1], -a[2], -a[3]>>
CostAbs(a) == IF a[1] < 0 THEN CostNeg(a) ELSE a

\* the cost of the magnitude of sum and the sign of a
SignedAs(a, sum) == IF CostIsNegative(a) THEN CostNeg(sum) ELSE sum

\* a + b for costs other than 0.0, the magnitude of a not below that of b:
\* the sum has the sign of a, or is 0.0
AddOrdered(a, b) ==
  IF CostIsNegative(a) # CostIsNegative(b)
  THEN Cost(CostIsNegative(a), DoubleSub(Magnitude(a), Magnitude(b)))
  ELSE IF CostAbs(a)[1] - CostAbs(b)[1] > 54 THEN a
  ELSE SignedAs(a, AddAligned(CostAbs(a), CostAbs(b)))

\* a + b
CostAdd(a, b) ==
  IF a = CostZero THEN b
  ELSE IF b = CostZero THEN a
  ELSE IF CostLess(CostAbs(a), CostAbs(b)) THEN AddOrdered(b, a)
  ELSE AddOrdered(a, b)

\* a * b
CostMul(a, b) ==
  Cost(CostIsNegative(a) # CostIsNegative(b), DoubleMul(Magnitude(a), Magnitude(b)))

\* a / d for a positive int d
CostDivInt(a, d) == Cost(CostIsNegative(a), DoubleDivInt(Magnitude(a), d))

\* the float literals of the weight closures
Float_0_5 == CostDivInt(CostOfInt(1), 2)
Float_0_35 == CostDivInt(CostOfInt(7), 20)
Float_0_15 == CostDivInt(CostOfInt(3), 20)

\* the whole number of thousandths nearest to a cost whose magnitude is below
\* 2^20
Thousandths(c) ==
  IF c = CostZero THEN 0
  ELSE LET x == Magnitude(c)
           n == MulFrom(x.m, 1000, 1, 0)
           q == IF x.e >= 0 THEN ShiftLeft(n, x.e) ELSE ShiftRight(n, -x.e)
           r == IF x.e >= 0 THEN 0 ELSE Bit(n, -x.e - 1)
           v == Limb(q, 1) + Limb(q, 2) * Base + Limb(q, 3) * Base * Base + r
       IN  IF CostIsNegative(c) THEN -v ELSE v

(***************************************************************************)
(* Weight functions                                                        *)
(***************************************************************************)

\* the count as it is, whatever the cap
Uncapped(a, b) == a

Min2(a, b) == IF a < b THEN a ELSE b

\* dict.get(station, 5) on a crime map
CrimeGet(crime, station, default) ==
  IF station \in DOMAIN crime THEN crime[station] ELSE default

\* "if is_transfer: weight += penalty"
WithTransfer(weight, is_transfer, penalty) ==
  IF is_transfer THEN CostAdd(weight, CostOfInt(penalty)) ELSE weight

\* RouteOptimizer._generate_safe_route.weight_safe
weight_safe(crime, next_station, travel_time, is_transfer) ==
  LET crimes == CrimeGet(crime, next_station, 5)
      crime_multiplier == CostAdd(CostOfInt(1), CostDivInt(CostOfInt(Min2(crimes, 20)), 10))
      weight == CostMul(CostOfInt(travel_time), crime_multiplier)
  IN  WithTransfer(weight, is_transfer, 5)

\* the travel time scaled by the crime count of the station entered
weight_fast_by_crime(crime, next_station, travel_time, is_transfer) ==
  LET crimes == CrimeGet(crime, next_station, 5)
      crime_multiplier == CostAdd(CostOfInt(1), CostDivInt(CostOfInt(Min2(crimes, 20)), 10))
      weight == CostMul(CostOfInt(travel_time), crime_multiplier)
  IN  WithTransfer(weight, is_transfer, 8)

\* RouteOptimizer._generate_fast_route.weight_fast
weight_fast(crime, next_station, travel_time, is_transfer) ==
  LET weight == CostOfInt(travel_time)
  IN  WithTransfer(weight, is_transfer, 8)

\* RouteOptimizer._generate_balanced_route.weight_balanced
weight_balanced(crime, next_station, travel_time, is_transfer) ==
  LET crimes == CrimeGet(crime, next_station, 5)
      crime_cost == CostMul(CostOfInt(Min2(crimes, 20)), Float_0_5)
      transfer_cost == IF is_transfer THEN CostOfInt(6) ELSE CostOfInt(0)
  IN  CostAdd(CostAdd(CostMul(CostOfInt(travel_time), Float_0_5),
                      CostMul(crime_cost, Float_0_35)),
              CostMul(transfer_cost, Float_0_15))

\* weight_func(...), or travel_time when the search has no weight function
WeightOf(wf, crime, next_station, travel_time, is_transfer) ==
  CASE wf = "weight_safe" -> weight_safe(crime, next_station, travel_time, is_transfer)
    [] wf = "weight_fast" -> weight_fast(crime, next_station, travel_time, is_transfer)
    [] wf = "weight_balanced" ->
         weight_balanced(crime, next_station, travel_time, is_transfer)
    [] OTHER -> CostOfInt(travel_time)

\* the minutes of the edges of the graph
EdgeTimes == UNION {{graph[k][j][3] : j \in 1..Len(graph[k])} : k \in DOMAIN graph}

\* the crime counts, capped at 20, for which the costs are kept
KeptCounts == (0 - 30)..20

WeightNames == {"none", "weight_safe", "weight_fast", "weight_balanced"}

\* a closure reads the crime map only through the count of the station
\* entered, capped at 20: its costs for the edges of the graph, computed once
KeptKeys == WeightNames \X KeptCounts \X EdgeTimes \X BOOLEAN
KeptWeights ==
  [k \in KeptKeys |->
     LET station == CHOOSE s \in all_stations : TRUE
     IN  WeightOf(k[1], (station :> k[2]), station, k[3], k[4])]

\* the cost kept for k, or weight when none is kept
KeptOr(k, weight) == IF k \in KeptKeys THEN KeptWeights[k] ELSE weight

\* the edge cost _dijkstra computes: weight_func(...) or travel_time
EdgeWeight(wf, crime, next_station, travel_time, is_transfer) ==
  KeptOr(<<wf, Min2(CrimeGet(crime, next_station, 5), 20), travel_time, is_transfer>>,
         WeightOf(wf, crime, next_station, travel_time, is_transfer))

(***************************************************************************)
(* DijkstraRouter                                                          *)
(***************************************************************************)

None == [found |-> FALSE]

\* tuple order of heap entries (distance, station, line, transfers)
HeapLess(a, b) ==
  \/ CostLess(a[1], b[1])
  \/ a[1] = b[1] /\ a[2] < b[2]
  \/ a[1] = b[1] /\ a[2] = b[2] /\ a[3] < b[3]
  \/ a[1] = b[1] /\ a[2] = b[2] /\ a[3] = b[3] /\ a[4] < b[4]

\* heapq.heappop: the least entry
HeapMin(pq) == CHOOSE a \in pq : \A b \in pq : a = b \/ HeapLess(a, b)

\* the relaxation loop keeping the weighted cost of the edge, where the travel
\* time belongs, in previous
\* "if next_state not in distances or new_distance < distances[next_state]":
\* the locals after the edge from the popped node cur to nxt, of cost
\* new_distance, has been looked at; minutes is what previous keeps of the edge
Improved(st, cur, nxt, new_distance, minutes, is_transfer) ==
  IF nxt \notin DOMAIN st.distances \/ CostLess(new_distance, st.distances[nxt])
  THEN [st EXCEPT
          !.distances = [n \in DOMAIN st.distances \cup {nxt} |->
                           IF n = nxt THEN new_distance ELSE st.distances[n]],
          !.previous = [n \in DOMAIN st.previous \cup {nxt} |->
                          IF n = nxt THEN <<<<cur[2], cur[3]>>, minutes, is_transfer>>
                          ELSE st.previous[n]],
          !.pq = st.pq \cup {<<new_distance, nxt[1], nxt[2],
                               cur[4] + (IF is_transfer THEN 1 ELSE 0)>>}]
  ELSE st

\* the edge cost added to the distance of the popped node, and the whole
\* minutes of the edge cost
WeighedEdge(cur, edge_weight) ==
  [new_distance |-> CostAdd(cur[1], edge_weight),
   minutes |-> Thousandths(edge_weight) \div 1000]

ImprovedBy(st, cur, nxt, edge, is_transfer) ==
  Improved(st, cur, nxt, edge.new_distance, edge.minutes, is_transfer)

\* the relaxation loop keeping the weighted cost of the edge, where the travel
\* time belongs, in previous
RECURSIVE RelaxKeepsWeight(_, _, _, _, _, _)
RelaxKeepsWeight(st, cur, adjacent, i, wf, crime) ==
  IF i > Len(adjacent) THEN st
  ELSE
    LET nxt == <<adjacent[i][1], adjacent[i][2]>>
        travel_time == adjacent[i][3]
        is_transfer == adjacent[i][2] # cur[3]
    IN  IF nxt \in st.visited THEN RelaxKeepsWeight(st, cur, adjacent, i + 1, wf, crime)
        ELSE RelaxKeepsWeight(
               ImprovedBy(st, cur, nxt,
                          WeighedEdge(cur, EdgeWeight(wf, crime, nxt[1], travel_time,
                                                      is_transfer)),
                          is_transfer),
               cur, adjacent, i + 1, wf, crime)

\* the relaxation loop over the adjacency list of the popped node
RECURSIVE Relax(_, _, _, _, _, _)
Relax(st, cur, adjacent, i, wf, crime) ==
  IF i > Len(adjacent) THEN st
  ELSE
    LET nxt == <<adjacent[i][1], adjacent[i][2]>>
        travel_time == adjacent[i][3]
        is_transfer == adjacent[i][2] # cur[3]
    IN  IF nxt \in st.visited THEN Relax(st, cur, adjacent, i + 1, wf, crime)
        ELSE Relax(Improved(st, cur, nxt,
                            CostAdd(cur[1], EdgeWeight(wf, crime, nxt[1], travel_time,
                                                       is_transfer)),
                            travel_time, is_transfer),
                   cur, adjacent, i + 1, wf, crime)

\* the popped node is not recorded
SettleNothing(st, node) == st

\* "visited.add((current_station, current_line))"
Settle(st, node) == [st EXCEPT !.visited = st.visited \cup {node}]

\* one iteration of the while loop of DijkstraRouter._dijkstra on the locals
\* st = [pq, distances, previous, visited]: either the loop goes on with new
\* locals, or the function returns the path record
LoopIteration(st, end_station, wf, crime, max_transfers) ==
  LET cur == HeapMin(st.pq)
      node == <<cur[2], cur[3]>>
      popped == [st EXCEPT !.pq = st.pq \ {cur}]
      vis == Settle(popped, node)
  IN  IF node \in st.visited
      THEN [returns |-> FALSE, st |-> popped]
      ELSE IF cur[2] = end_station
      THEN [returns |-> TRUE,
            value |-> [found |-> TRUE,
                       total_distance |-> cur[1],
                       previous |-> vis.previous,
                       end_state |-> node,
                       transfers |-> cur[4]]]
      ELSE IF cur[4] > max_transfers
      THEN [returns |-> FALSE, st |-> vis]
      ELSE [returns |-> FALSE,
            st |-> Relax(vis, cur, get_adjacent_stations(cur[2], cur[3]), 1, wf, crime)]

\* whether the next iteration of the while loop expands the node it pops, that
\* is, calls get_adjacent_stations for it
Expands(st, end_station, max_transfers) ==
  /\ st.pq # {}
  /\ LET cur == HeapMin(st.pq)
     IN  /\ <<cur[2], cur[3]>> \notin st.visited
         /\ cur[2] # end_station
         /\ cur[4] <= max_transfers

\* whether the weight function reads the crime map
ReadsCrime(wf) == wf \in {"weight_safe", "weight_balanced"}

\* whether the next iteration of the while loop calls a weight function that
\* reads the crime map: the popped node is expanded and has an adjacent node
\* that is not visited
Weighs(st, end_station, wf, max_transfers) ==
  /\ ReadsCrime(wf)
  /\ st.pq # {}
  /\ LET cur == HeapMin(st.pq)
         node == <<cur[2], cur[3]>>
         adjacent == get_adjacent_stations(cur[2], cur[3])
     IN  /\ node \notin st.visited
         /\ cur[2] # end_station
         /\ cur[4] <= max_transfers
         /\ \E j \in 1..Len(adjacent) :
              <<adjacent[j][1], adjacent[j][2]>> \notin st.visited \cup {node}

\* the locals of _dijkstra at its first loop test
DijkstraInit(start_station, start_line) ==
  [pq |-> {<<CostZero, start_station, start_line, 0>>},
   distances |-> [n \in {<<start_station, start_line>>} |-> CostZero],
   previous |-> << >>,
   visited |-> {}]

\* the edges of the path, walking the predecessor links back from the end
\* state: << <<from node, to node, travel_time, is_transfer>>, ... >> in
\* forward order
RECURSIVE Backtrack(_, _, _)
Backtrack(previous, current, fuel) ==
  IF current \notin DOMAIN previous \/ fuel = 0 THEN << >>
  ELSE Backtrack(previous, previous[current][1], fuel - 1)
       \o << <<previous[current][1], current, previous[current][2],
               previous[current][3]>> >>

\* a walk that follows one predecessor link only
PathEdgesOneLink(path_info) ==
  Backtrack(path_info.previous, path_info.end_state, 1)

PathEdges(path_info) ==
  Backtrack(path_info.previous, path_info.end_state,
            Cardinality(DOMAIN path_info.previous) + 1)

RECURSIVE SumSeq(_)
SumSeq(s) == IF s = << >> THEN 0 ELSE Head(s) + SumSeq(Tail(s))

\* the line of every node, nothing removed
AllLines(lines) == lines

\* "Remove duplicate lines": one entry per run of equal lines
RECURSIVE UniqueLines(_)
UniqueLines(lines) ==
  IF Len(lines) <= 1 THEN lines
  ELSE LET rest == UniqueLines(SubSeq(lines, 1, Len(lines) - 1))
       IN  IF rest[Len(rest)] # lines[Len(lines)]
           THEN Append(rest, lines[Len(lines)])
           ELSE rest

\* a ride segment that counts its stations, not the stops between them
RideSegmentCountingStations(segment_line, segment_stations) ==
  [type |-> "ride",
   line |-> segment_line,
   from |-> segment_stations[1],
   to |-> segment_stations[Len(segment_stations)],
   stops |-> Len(segment_stations),
   time_minutes |-> 2 * Len(segment_stations)]

RideSegment(segment_line, segment_stations) ==
  [type |-> "ride",
   line |-> segment_line,
   from |-> segment_stations[1],
   to |-> segment_stations[Len(segment_stations)],
   stops |-> Len(segment_stations) - 1,
   time_minutes |-> 2 * (Len(segment_stations) - 1)]

TransferSegment(station, from_line, to_line) ==
  [type |-> "transfer",
   station |-> station,
   from_line |-> from_line,
   to_line |-> to_line,
   time_minutes |-> 2]

\* the segment loop of _extract_route, from index i (1-based) on
RECURSIVE BuildSegments(_, _, _, _, _, _)
BuildSegments(stations, lines, i, segment_stations, segment_line, segments) ==
  IF i > Len(stations)
  THEN Append(segments, RideSegment(segment_line, segment_stations))
  ELSE IF lines[i] # segment_line
  THEN BuildSegments(stations, lines, i + 1, <<stations[i]>>, lines[i],
                     segments \o << RideSegment(segment_line, segment_stations),
                                    TransferSegment(stations[i], segment_line, lines[i]) >>)
  ELSE BuildSegments(stations, lines, i + 1, Append(segment_stations, stations[i]),
                     segment_line, segments)

\* DijkstraRouter._extract_route
extract_route(path_info) ==
  LET edges == PathEdges(path_info)
      first == IF edges = << >> THEN path_info.end_state ELSE edges[1][1]
      stations == <<first[1]>> \o [j \in 1..Len(edges) |-> edges[j][2][1]]
      lines == <<first[2]>> \o [j \in 1..Len(edges) |-> edges[j][2][2]]
  IN  [found |-> TRUE,
       stations |-> stations,
       lines |-> UniqueLines(lines),
       segments |-> BuildSegments(stations, lines, 2, <<stations[1]>>, lines[1], << >>),
       total_time_minutes |-> SumSeq([j \in 1..Len(edges) |-> edges[j][3]]),
       total_transfers |-> Cardinality({j \in 1..Len(edges) : edges[j][4]}),
       total_stops |-> Len(stations)]

\* the route returned for origin = destination
TrivialRoute(station) ==
  [found |-> TRUE,
   stations |-> <<station>>,
   lines |-> << >>,
   segments |-> << >>,
   total_time_minutes |-> 0,
   total_transfers |-> 0,
   total_stops |-> 1]

\* the set of lines as the sorted list get_available_lines returns
RECURSIVE SortedSeq(_)
SortedSeq(S) ==
  IF S = {} THEN << >>
  ELSE LET m == CHOOSE x \in S : \A y \in S : x <= y
       IN  <<m>> \o SortedSeq(S \ {m})

\* a path as cheap as the best so far replaces it
IsBetterOrEqual(path_info, best) ==
  path_info.found
    /\ (~best.found \/ CostLeq(path_info.total_distance, best.total_distance))

\* "if path and path['total_distance'] < best_distance"
IsBetter(path_info, best) ==
  path_info.found
    /\ (~best.found \/ CostLess(path_info.total_distance, best.total_distance))

\* the origin = destination case left out
EarlyReturnNoSame(start_station, end_station) ==
  IF ~validate_station(start_station) THEN [early |-> TRUE, value |-> None]
  ELSE IF ~validate_station(end_station) THEN [early |-> TRUE, value |-> None]
  ELSE IF get_available_lines(start_station) = {}
  THEN [early |-> TRUE, value |-> None]
  ELSE [early |-> FALSE]

\* the origin = destination case tested before the two names are validated
EarlyReturnSameFirst(start_station, end_station) ==
  IF start_station = end_station
  THEN [early |-> TRUE, value |-> TrivialRoute(start_station)]
  ELSE IF ~validate_station(start_station) THEN [early |-> TRUE, value |-> None]
  ELSE IF ~validate_station(end_station) THEN [early |-> TRUE, value |-> None]
  ELSE IF get_available_lines(start_station) = {}
  THEN [early |-> TRUE, value |-> None]
  ELSE [early |-> FALSE]

\* the part of find_shortest_path before the searches: the value it returns at
\* once, or "search" when it goes on to the per-line searches
EarlyReturn(start_station, end_station) ==
  IF ~validate_station(start_station) THEN [early |-> TRUE, value |-> None]
  ELSE IF ~validate_station(end_station) THEN [early |-> TRUE, value |-> None]
  ELSE IF start_station = end_station
  THEN [early |-> TRUE, value |-> TrivialRoute(start_station)]
  ELSE IF get_available_lines(start_station) = {}
  THEN [early |-> TRUE, value |-> None]
  ELSE [early |-> FALSE]

(***************************************************************************)
(* ScoreCalculator.  Baseline means, percentiles and scores before         *)
(* rounding are exact fractions <<numerator, denominator>> with a positive *)
(* denominator; the averages the code computes are floats (below).         *)
(***************************************************************************)

RECURSIVE GCD(_, _)
GCD(a, b) == IF b = 0 THEN a ELSE GCD(b, a % b)

Abs(a) == IF a < 0 THEN -a ELSE a

\* the fraction num/den in lowest terms
Frac(num, den) ==
  LET g == GCD(Abs(num), den) IN IF g = 0 THEN <<0, 1>> ELSE <<num \div g, den \div g>>

\* a/b <= c/d and a/b < c/d for fractions with positive denominators
FracLeq(x, y) == x[1] * y[2] <= y[1] * x[2]
FracLess(x, y) == x[1] * y[2] < y[1] * x[2]

\* halves rounded up
RoundHalfUp(num, den) == (2 * num + den) \div (2 * den)

\* int(round(num/den)): Python rounds halves to the even integer
RoundHalfEven(num, den) ==
  LET q == num \div den
      r == num % den
  IN  IF 2 * r < den THEN q
      ELSE IF 2 * r > den THEN q + 1
      ELSE IF q % 2 = 0 THEN q ELSE q + 1

\* sorted(values of the map), duplicates kept
RECURSIVE SortedValues(_, _)
SortedValues(m, keys) ==
  IF keys = {} THEN << >>
  ELSE LET k == CHOOSE x \in keys : \A y \in keys : m[x] <= m[y]
       IN  <<m[k]>> \o SortedValues(m, keys \ {k})

\* statistics of a non-empty list of sorted values
Statistics(sorted) ==
  LET n == Len(sorted)
      total == SumSeq(sorted)
      squares == SumSeq([j \in 1..n |-> sorted[j] * sorted[j]])
  IN  [mean |-> Frac(total, n),
       median |-> IF n % 2 = 1 THEN Frac(sorted[(n + 1) \div 2], 1)
                  ELSE Frac(sorted[n \div 2] + sorted[n \div 2 + 1], 2),
       std_dev_sq |-> IF n > 1 THEN Frac(n * squares - total * total, n * (n - 1))
                      ELSE <<0, 1>>,
       min |-> sorted[1],
       max |-> sorted[n],
       p25 |-> sorted[(n * 25) \div 100 + 1],
       p50 |-> sorted[(n * 50) \div 100 + 1],
       p75 |-> sorted[(n * 75) \div 100 + 1]]

\* ScoreCalculator._calculate_crime_baseline
CalculateCrimeBaseline(crime) ==
  IF DOMAIN crime = {}
  THEN [mean |-> <<5, 1>>, median |-> <<5, 1>>, std_dev_sq |-> <<4, 1>>,
        min |-> 0, max |-> 20, p25 |-> 3, p50 |-> 5, p75 |-> 8]
  ELSE Statistics(SortedValues(crime, DOMAIN crime))

\* ScoreCalculator._calculate_reliability_baseline
CalculateReliabilityBaseline(perf) ==
  IF DOMAIN perf = {}
  THEN [mean |-> <<85, 1>>, median |-> <<85, 1>>, std_dev_sq |-> <<9, 1>>,
        min |-> 77, max |-> 92, p25 |-> 82, p50 |-> 85, p75 |-> 88]
  ELSE Statistics(SortedValues(perf, DOMAIN perf))

\* the five-tier map from the percentile 100 * k / n to the score, rounded
TierScore(k, n) ==
  IF 100 * k >= 90 * n THEN 10
  ELSE IF 100 * k >= 75 * n THEN RoundHalfEven(45 * n + 100 * k, 15 * n)
  ELSE IF 100 * k >= 50 * n THEN RoundHalfEven(100 * n + 100 * k, 25 * n)
  ELSE IF 100 * k >= 25 * n THEN RoundHalfEven(75 * n + 100 * k, 25 * n)
  ELSE RoundHalfEven(50 * n + 100 * k, 25 * n)

\* the float of a baseline mean: statistics.mean's quotient of two ints
FloatOfMean(mean) == CostDivInt(CostOfInt(mean[1]), mean[2])

\* sum(values): the values are added one at a time from the left
RECURSIVE FloatSum(_)
FloatSum(values) ==
  IF values = << >> THEN CostZero
  ELSE CostAdd(FloatSum(SubSeq(values, 1, Len(values) - 1)), values[Len(values)])

\* sum(values) / len(values) of the list [m.get(x, mean) for x in xs]
FloatAverageOf(m, mean, xs) ==
  CostDivInt(FloatSum([j \in 1..Len(xs) |->
                         IF xs[j] \in DOMAIN m THEN CostOfInt(m[xs[j]])
                         ELSE FloatOfMean(mean)]),
             Len(xs))

\* the average of the list [m.get(x, mean) for x in xs] as an exact fraction:
\* the quantity the properties speak of, which the code's float approximates
AverageOf(m, mean, xs) ==
  LET present == SumSeq([j \in 1..Len(xs) |-> IF xs[j] \in DOMAIN m THEN m[xs[j]] ELSE 0])
      missing == Cardinality({j \in 1..Len(xs) : xs[j] \notin DOMAIN m})
  IN  Frac(present * mean[2] + missing * mean[1], mean[2] * Len(xs))

\* ScoreCalculator.calculate_safety_score
calculate_safety_score(crime, baseline, stations) ==
  IF stations = << >> THEN 5
  ELSE
    LET route_avg_crime == FloatAverageOf(crime, baseline.mean, stations)
        n == Cardinality(DOMAIN crime)
        crime_count == Cardinality({s \in DOMAIN crime :
                                      CostLeq(route_avg_crime, CostOfInt(crime[s]))})
    IN  IF n > 0 THEN TierScore(n - crime_count, n)
        ELSE IF CostLeq(route_avg_crime, FloatOfMean(baseline.mean))
        THEN TierScore(50, 100)
        ELSE TierScore(30, 100)

\* the percentile taken as the share of lines at or above the route's average
calculate_reliability_score_inverted(perf, baseline, lines) ==
  IF lines = << >> THEN 5
  ELSE
    LET route_avg_performance == FloatAverageOf(perf, baseline.mean, lines)
        n == Cardinality(DOMAIN perf)
        better_count == Cardinality({l \in DOMAIN perf :
                                       CostLess(CostOfInt(perf[l]),
                                                route_avg_performance)})
    IN  IF n > 0 THEN TierScore(n - better_count, n)
        ELSE IF CostLeq(FloatOfMean(baseline.mean), route_avg_performance)
        THEN TierScore(50, 100)
        ELSE TierScore(30, 100)

\* ScoreCalculator.calculate_reliability_score
calculate_reliability_score(perf, baseline, lines) ==
  IF lines = << >> THEN 5
  ELSE
    LET route_avg_performance == FloatAverageOf(perf, baseline.mean, lines)
        n == Cardinality(DOMAIN perf)
        better_count == Cardinality({l \in DOMAIN perf :
                                       CostLess(CostOfInt(perf[l]),
                                                route_avg_performance)})
    IN  IF n > 0 THEN TierScore(better_count, n)
        ELSE IF CostLeq(FloatOfMean(baseline.mean), route_avg_performance)
        THEN TierScore(50, 100)
        ELSE TierScore(30, 100)

Max2(a, b) == IF a > b THEN a ELSE b

\* the penalty and the score left unclamped
calculate_efficiency_score_unclamped(num_transfers, travel_time_minutes) ==
  RoundHalfEven(20 - num_transfers * 3, 2)

\* a point taken off for every 30 minutes of travel
calculate_efficiency_score_timed(num_transfers, travel_time_minutes) ==
  LET transfer_penalty == Min2(num_transfers * 3, 20)
      time_penalty == 2 * (travel_time_minutes \div 30)
      efficiency_score == Max2(0, Min2(20, 20 - transfer_penalty - time_penalty))
  IN  RoundHalfEven(efficiency_score, 2)

\* ScoreCalculator.calculate_efficiency_score, in halves before rounding
calculate_efficiency_score(num_transfers, travel_time_minutes) ==
  LET transfer_penalty == Min2(num_transfers * 3, 20)
      efficiency_score == Max2(0, Min2(20, 20 - transfer_penalty))
  IN  RoundHalfEven(efficiency_score, 2)

\* ScoreCalculator.calculate_route_scores
calculate_route_scores(sc, route) ==
  [safety_score |-> calculate_safety_score(sc.crime_data, sc.crime_baseline, route.stations),
   reliability_score |->
     calculate_reliability_score(sc.line_performance, sc.reliability_baseline, route.lines),
   efficiency_score |->
     calculate_efficiency_score(route.total_transfers, route.total_time_minutes)]

\* ScoreCalculator.__init__
NewScoreCalculator(crime, perf) ==
  [crime_data |-> crime,
   line_performance |-> perf,
   crime_baseline |-> CalculateCrimeBaseline(crime),
   reliability_baseline |-> CalculateReliabilityBaseline(perf)]

(***************************************************************************)
(* RouteOptimizer                                                          *)
(***************************************************************************)

\* default of find_shortest_path's max_transfers, used by the three searches
DefaultMaxTransfers == 5

\* the Safe and Fast searches run with each other's weight function
RoutePlanSwapped ==
  << [name |-> "SafeRoute", wf |-> "weight_fast"],
     [name |-> "FastRoute", wf |-> "weight_safe"],
     [name |-> "BalancedRoute", wf |-> "weight_balanced"] >>

\* the three searches of generate_routes, in the order it runs them
RoutePlan ==
  << [name |-> "SafeRoute", wf |-> "weight_safe"],
     [name |-> "FastRoute", wf |-> "weight_fast"],
     [name |-> "BalancedRoute", wf |-> "weight_balanced"] >>

\* every route labelled with the first name
NamedSafe(route, name) == [name |-> "SafeRoute"] @@ route

\* route["name"] = name
Named(route, name) == [name |-> name] @@ route

(***************************************************************************)
(* Inputs                                                                  *)
(***************************************************************************)

\* a name that is no station of the network
UnknownStation == 0

\* stations requests are made from and to; the lines of station 10 reach none
\* of the destinations
Origins == {1, 10, 14, 31, 58}
Destinations == {1, 14, 31, 58}

\* transfer ceilings tried: 0..MaxCeiling and the default
MaxCeiling == 1

Ceilings == 0..MaxCeiling \cup {DefaultMaxTransfers}

WeightFuncs == {"none", "weight_safe", "weight_balanced"}

\* crime maps loaded with update_crime_data
CrimeMaps ==
  { << >>,
    (58 :> 20 @@ 24 :> 15 @@ 14 :> 0) }

\* LINE_PERFORMANCE: on_time_percent of each line
LINE_PERFORMANCE ==
  (1 :> 88 @@ 2 :> 85 @@ 3 :> 85 @@ 4 :> 87 @@ 5 :> 86 @@ 6 :> 88 @@ 7 :> 83 @@ 8 :> 82
     @@ 9 :> 81 @@ 10 :> 83 @@ 11 :> 78 @@ 12 :> 80 @@ 13 :> 85 @@ 14 :> 79 @@ 15 :> 84
     @@ 16 :> 80 @@ 17 :> 92 @@ 18 :> 77)

\* performance maps the score calculator is constructed with and refreshed with
ScorePerfMaps == {<< >>, LINE_PERFORMANCE, (1 :> 90 @@ 8 :> 70)}

\* stations and lines of the routes that are scored
ScoreStations == {14, 31, 58}
ScoreLines == {1, 4}

\* longest station list and line list scored
MaxStations == 2
MaxLines == 2

\* largest transfer count scored
MaxTransferCount == 8

TravelTimes == {0, 45}

\* the sequences over S of length at most n
SeqsUpTo(S, n) == UNION {[1..k -> S] : k \in 0..n}

StationLists == SeqsUpTo(ScoreStations, MaxStations)
LineLists == SeqsUpTo(ScoreLines, MaxLines)

\* the routes scored: no transfer, or the largest count
ScoreRoutes ==
  [stations : StationLists, lines : LineLists,
   total_transfers : {0, MaxTransferCount}, total_time_minutes : {45}]

(***************************************************************************)
(* State                                                                   *)
(***************************************************************************)

VARIABLES
  crime_data,   \* RouteOptimizer.crime_data
  pc,           \* "idle", or "dijkstra" while a per-line search is running
  call,         \* the running call: op, origin, dest, wf, max_transfers, start_line
  lines_left,   \* start lines find_shortest_path has still to search
  locals,       \* pq, distances, previous, visited of the running _dijkstra
  path,         \* the value _dijkstra has just returned, with its start line
  best_path,    \* find_shortest_path's best_path
  routes,       \* generate_routes' list of routes
  searches,     \* the searches generate_routes has finished: name, route, path edges
  result,       \* the call that returned last, with the value it returned
  costs_from,   \* the crime maps the running call's edge costs were computed from
  graph_writes, \* the entries of SubwayGraph.graph written since its construction
  runs,         \* the per-line searches the running or last call has finished
  calc,         \* the ScoreCalculator: its two maps and its two baselines
  scores,       \* the calculator call that is returning, with its value
  previous,     \* the caller's copy of the value an earlier call returned
  loaded,       \* the crime map the request handler loaded for its own request
  other,        \* the crime maps of the other requests that have refreshed the
                \* optimizer and have yet to refresh the calculator
  for_loop      \* where the running _dijkstra is in "for ... in adjacent": the
                \* entry it popped and the index of the next adjacent entry

routerVars ==
  <<crime_data, pc, call, lines_left, locals, path, best_path, routes, searches, result,
    costs_from, graph_writes, runs>>
scoreVars == <<calc, scores>>
callerVars == <<previous, loaded>>
interleaveVars == <<other, for_loop>>
vars == <<routerVars, scoreVars, callerVars, interleaveVars>>

NoCall == [op |-> "none"]
NoLocals == [pq |-> {}, distances |-> << >>, previous |-> << >>, visited |-> {}]
Running == [returned |-> FALSE]
NoScores == [op |-> "none"]
NoResult == [op |-> "none"]
NoMap == [set |-> FALSE]
NoOther == {}
NotInFor == [i |-> 0]

\* the list of routes held from an earlier call
KeptRoutes == routes

\* the key rank_routes_by_criterion sorts a route by under "safe", "fast" or
\* "balanced"
RankKey(crime, route, criterion) ==
  CASE criterion = "safe" ->
         SumSeq([j \in 1..Len(route.stations) |-> CrimeGet(crime, route.stations[j], 5)])
    [] criterion = "fast" -> route.total_time_minutes
    [] criterion = "balanced" -> route.total_transfers

\* an insertion that puts the pair before the pairs of equal key
InsertByKeyBeforeEquals(sorted, p) ==
  LET n == Cardinality({i \in 1..Len(sorted) : sorted[i][1] < p[1]})
  IN  SubSeq(sorted, 1, n) \o <<p>> \o SubSeq(sorted, n + 1, Len(sorted))

\* sorted(): a pair <<key, route>> goes after the pairs whose key is not larger
InsertByKey(sorted, p) ==
  LET n == Cardinality({i \in 1..Len(sorted) : sorted[i][1] <= p[1]})
  IN  SubSeq(sorted, 1, n) \o <<p>> \o SubSeq(sorted, n + 1, Len(sorted))

\* sorted(routes, key=...): a new list, in input order among equal keys
RECURSIVE SortedByKey(_)
SortedByKey(pairs) ==
  IF pairs = << >> THEN << >>
  ELSE InsertByKey(SortedByKey(SubSeq(pairs, 1, Len(pairs) - 1)), pairs[Len(pairs)])

\* RouteOptimizer.rank_routes_by_criterion
rank_routes_by_criterion(crime, rs, criterion) ==
  IF criterion \in {"safe", "fast", "balanced"}
  THEN LET pairs == [j \in 1..Len(rs) |-> <<RankKey(crime, rs[j], criterion), rs[j]>>]
           s == SortedByKey(pairs)
       IN  [j \in 1..Len(s) |-> s[j][2]]
  ELSE rs

\* "routes = []"
NewRoutes == << >>

Init ==
  /\ crime_data = << >>
  /\ pc = "idle"
  /\ call = NoCall
  /\ lines_left = << >>
  /\ locals = NoLocals
  /\ path = Running
  /\ best_path = None
  /\ routes = << >>
  /\ searches = << >>
  /\ result = [op |-> "none"]
  /\ calc = NewScoreCalculator(<< >>, LINE_PERFORMANCE)
  /\ scores = NoScores
  /\ previous = NoResult
  /\ loaded = NoMap
  /\ other = NoOther
  /\ for_loop = NotInFor
  /\ costs_from = {}
  /\ graph_writes = << >>
  /\ runs = << >>

\* RouteOptimizer.update_crime_data
UpdateCrimeData(m) ==
  /\ pc = "idle"
  /\ crime_data' = m
  /\ UNCHANGED <<pc, call, lines_left, locals, path, best_path, routes, searches, result,
                 costs_from, graph_writes, runs>>
  /\ UNCHANGED <<scoreVars, callerVars, interleaveVars>>

\* find_shortest_path enters the loop over the start lines and _dijkstra its
\* while loop for the first of them
BeginSearch(c) ==
  LET start_lines == SortedSeq(get_available_lines(c.origin))
  IN  /\ pc' = "dijkstra"
      /\ call' = [c EXCEPT !.start_line = start_lines[1]]
      /\ lines_left' = Tail(start_lines)
      /\ locals' = DijkstraInit(c.origin, start_lines[1])
      /\ path' = Running
      /\ best_path' = None

\* DijkstraRouter.find_shortest_path, up to its first search step
FindShortestPath(o, d, wf, mt) ==
  /\ pc = "idle"
  /\ LET c == [op |-> "find", origin |-> o, dest |-> d, wf |-> wf,
               max_transfers |-> mt, start_line |-> 0, phase |-> 0]
         e == EarlyReturn(o, d)
     IN  IF e.early
         THEN /\ result' = c @@ [value |-> e.value, searched |-> FALSE,
                                 crime |-> crime_data]
              /\ path' = Running
              /\ UNCHANGED <<pc, call, lines_left, locals, best_path>>
         ELSE /\ BeginSearch(c)
              /\ result' = [op |-> "none"]
  /\ routes' = << >>
  /\ searches' = << >>
  /\ costs_from' = {}
  /\ runs' = << >>
  /\ UNCHANGED <<crime_data, graph_writes, scoreVars, callerVars, interleaveVars>>

\* RouteOptimizer.generate_routes, up to the first search step of SafeRoute
GenerateRoutes(o, d) ==
  /\ pc = "idle"
  /\ LET c == [op |-> "generate", origin |-> o, dest |-> d, wf |-> RoutePlan[1].wf,
               max_transfers |-> DefaultMaxTransfers, start_line |-> 0, phase |-> 1]
         e == EarlyReturn(o, d)
         all == IF e.value.found
                THEN NewRoutes \o [k \in 1..3 |-> Named(e.value, RoutePlan[k].name)]
                ELSE NewRoutes
         done == [k \in 1..3 |-> [name |-> RoutePlan[k].name, wf |-> RoutePlan[k].wf,
                                  route |-> e.value, edges |-> << >>]]
     IN  IF e.early
         THEN /\ result' = c @@ [value |-> IF all = << >> THEN None
                                           ELSE [found |-> TRUE, routes |-> all],
                                 searched |-> FALSE, crime |-> crime_data]
              /\ routes' = all
              /\ searches' = done
              /\ path' = Running
              /\ UNCHANGED <<pc, call, lines_left, locals, best_path>>
         ELSE /\ BeginSearch(c)
              /\ result' = NoResult
              /\ routes' = NewRoutes
              /\ searches' = << >>
  /\ costs_from' = {}
  /\ runs' = << >>
  /\ UNCHANGED <<crime_data, graph_writes, scoreVars, callerVars, interleaveVars>>

\* find_shortest_path returns: to its caller, or to generate_routes, which
\* appends the route and goes on with the next search or returns its list
FindReturns(best) ==
  LET route == IF best.found THEN extract_route(best) ELSE None
      name == RoutePlan[call.phase].name
      routes1 == IF route.found THEN Append(routes, Named(route, name)) ELSE routes
      searches1 == Append(searches,
                          [name |-> name, wf |-> call.wf, route |-> route,
                           edges |-> IF best.found THEN PathEdges(best) ELSE << >>])
  IN  IF call.op = "find"
      THEN /\ result' = call @@ [value |-> route, searched |-> TRUE, crime |-> crime_data]
           /\ pc' = "idle"
           /\ call' = NoCall
           /\ lines_left' = << >>
           /\ locals' = NoLocals
           /\ best_path' = None
           /\ UNCHANGED <<routes, searches>>
      ELSE IF call.phase < 3
      THEN /\ LET start_lines == SortedSeq(get_available_lines(call.origin))
              IN  /\ call' = [call EXCEPT !.phase = call.phase + 1,
                                          !.wf = RoutePlan[call.phase + 1].wf,
                                          !.start_line = start_lines[1]]
                  /\ lines_left' = Tail(start_lines)
                  /\ locals' = DijkstraInit(call.origin, start_lines[1])
           /\ pc' = "dijkstra"
           /\ best_path' = None
           /\ routes' = routes1
           /\ searches' = searches1
           /\ UNCHANGED result
      ELSE /\ result' = call @@ [value |-> IF routes1 = << >> THEN None
                                           ELSE [found |-> TRUE, routes |-> routes1],
                                 searched |-> TRUE, crime |-> crime_data]
           /\ pc' = "idle"
           /\ call' = NoCall
           /\ lines_left' = << >>
           /\ locals' = NoLocals
           /\ best_path' = None
           /\ routes' = routes1
           /\ searches' = searches1

\* what find_shortest_path sees of a per-line search that has returned: the
\* search of generate_routes it belongs to (0 for a direct call), its start
\* line, whether it found a path, the path's total_distance, the transfer
\* counter of the queue entry popped at the destination, the path's edges and
\* its route
RunOf(phase, start_line, path_info) ==
  IF path_info.found
  THEN [phase |-> phase, start_line |-> start_line, found |-> TRUE,
        total_distance |-> path_info.total_distance,
        transfers |-> path_info.transfers,
        edges |-> PathEdges(path_info),
        route |-> extract_route(path_info)]
  ELSE [phase |-> phase, start_line |-> start_line, found |-> FALSE]

\* one iteration of _dijkstra's while loop; when _dijkstra returns, the rest
\* of the loop body of find_shortest_path and the entry to the next search
DijkstraStep ==
  /\ pc = "dijkstra"
  /\ \E ret \in {IF locals.pq = {}
                  THEN [returns |-> TRUE, value |-> None]
                  ELSE LoopIteration(locals, call.dest, call.wf, crime_data,
                                     call.max_transfers)} :
       /\ IF ~ret.returns
          THEN /\ locals' = ret.st
               /\ path' = Running
               /\ UNCHANGED <<pc, call, lines_left, best_path, routes, searches, result>>
          ELSE \E best \in {IF IsBetter(ret.value, best_path) THEN ret.value
                             ELSE best_path} :
                 /\ path' = [returned |-> TRUE, start_line |-> call.start_line,
                             value |-> ret.value]
                 /\ IF lines_left # << >>
                    THEN /\ call' = [call EXCEPT !.start_line = Head(lines_left)]
                         /\ lines_left' = Tail(lines_left)
                         /\ locals' = DijkstraInit(call.origin, Head(lines_left))
                         /\ best_path' = best
                         /\ UNCHANGED <<pc, routes, searches, result>>
                    ELSE FindReturns(best)
       /\ runs' = IF ret.returns
                  THEN Append(runs, RunOf(call.phase, call.start_line, ret.value))
                  ELSE runs
  /\ costs_from' = IF Weighs(locals, call.dest, call.wf, call.max_transfers)
                   THEN costs_from \cup {crime_data}
                   ELSE costs_from
  /\ graph_writes' = IF Expands(locals, call.dest, call.max_transfers)
                     THEN LET cur == HeapMin(locals.pq)
                          IN  AdjacentWrites(cur[2], cur[3]) @@ graph_writes
                     ELSE graph_writes
  /\ UNCHANGED <<crime_data, scoreVars, callerVars, interleaveVars>>

\* ScoreCalculator.update_crime_data
ScoreUpdateCrimeData(m) ==
  /\ scores = NoScores
  /\ calc' = [calc EXCEPT !.crime_data = m]
  /\ UNCHANGED <<scores, routerVars, callerVars, interleaveVars>>

\* ScoreCalculator.update_line_performance
ScoreUpdateLinePerformance(p) ==
  /\ scores = NoScores
  /\ calc' = [calc EXCEPT !.line_performance = p]
  /\ UNCHANGED <<scores, routerVars, callerVars, interleaveVars>>

\* ScoreCalculator.calculate_safety_score
CalculateSafetyScore(stations) ==
  /\ scores = NoScores
  /\ scores' = [op |-> "calculate_safety_score", stations |-> stations,
                value |-> calculate_safety_score(calc.crime_data, calc.crime_baseline,
                                                 stations)]
  /\ UNCHANGED <<calc, routerVars, callerVars, interleaveVars>>

\* ScoreCalculator.calculate_reliability_score
CalculateReliabilityScore(lines) ==
  /\ scores = NoScores
  /\ scores' = [op |-> "calculate_reliability_score", lines |-> lines,
                value |-> calculate_reliability_score(calc.line_performance,
                                                      calc.reliability_baseline, lines)]
  /\ UNCHANGED <<calc, routerVars, callerVars, interleaveVars>>

\* ScoreCalculator.calculate_efficiency_score
CalculateEfficiencyScore(num_transfers, travel_time_minutes) ==
  /\ scores = NoScores
  /\ scores' = [op |-> "calculate_efficiency_score", num_transfers |-> num_transfers,
                travel_time_minutes |-> travel_time_minutes,
                value |-> calculate_efficiency_score(num_transfers, travel_time_minutes)]
  /\ UNCHANGED <<calc, routerVars, callerVars, interleaveVars>>

\* ScoreCalculator.calculate_route_scores
CalculateRouteScores(route) ==
  /\ scores = NoScores
  /\ scores' = [op |-> "calculate_route_scores", route |-> route,
                value |-> calculate_route_scores(calc, route)]
  /\ UNCHANGED <<calc, routerVars, callerVars, interleaveVars>>

\* the value is handed to the caller; the calculator takes the next call
ScoreReturn ==
  /\ scores # NoScores
  /\ scores' = NoScores
  /\ UNCHANGED <<calc, routerVars, callerVars, interleaveVars>>

\* the requests made of the router: from the origins and the unknown name to
\* the destinations and the unknown name under every weight function and
\* ceiling, and from every station to itself
FindRequests ==
  \/ \E o \in Origins \cup {UnknownStation}, d \in Destinations \cup {UnknownStation},
        wf \in WeightFuncs, mt \in Ceilings : FindShortestPath(o, d, wf, mt)
  \/ \E s \in all_stations : FindShortestPath(s, s, "none", DefaultMaxTransfers)

Next ==
  \/ \E m \in CrimeMaps : UpdateCrimeData(m)
  \/ FindRequests
  \/ DijkstraStep

\* the router under find_shortest_path requests
Spec == Init /\ [][Next]_vars

NextRoutes ==
  \/ \E m \in CrimeMaps : UpdateCrimeData(m)
  \/ \E o \in Origins \cup {UnknownStation}, d \in Destinations \cup {UnknownStation} :
        GenerateRoutes(o, d)
  \/ DijkstraStep

\* the optimizer under generate_routes requests
SpecRoutes == Init /\ [][NextRoutes]_vars

\* the station a name stands for: its place in the sorted list of the
\* graph's station names, or the unknown station when the graph has no such name
StationId(name) ==
  IF \E i \in 1..Len(StationNames) : StationNames[i] = name
  THEN CHOOSE i \in 1..Len(StationNames) : StationNames[i] = name
  ELSE UnknownStation

\* a crime map given by station names
CrimeMapOf(names, counts) ==
  [s \in {StationId(n) : n \in names} |->
     counts[CHOOSE n \in names : StationId(n) = s]]

\* the crime map and the requests of the Times Square to Herald Square example,
\* by the name the station database gives Times Square and by the name the
\* graph gives it
ExampleCrimeMap == CrimeMapOf({"Times Square-42nd Street"}, [n \in {"Times Square-42nd Street"} |-> 15])

ExampleRequests ==
  { <<StationId("Times Square-42nd Street"), StationId("34th Street-Herald Square")>>,
    <<StationId("42nd Street-Times Square"), StationId("34th Street-Herald Square")>> }

NextExample ==
  \/ UpdateCrimeData(ExampleCrimeMap)
  \/ \E r \in ExampleRequests : GenerateRoutes(r[1], r[2])
  \/ DijkstraStep

\* the optimizer under the requests of the example
SpecExample == Init /\ [][NextExample]_vars

\* requests made twice: a pair with three routes, an origin whose lines do not
\* reach the destination, a pair whose SafeRoute depends on the crime map, the
\* unknown name, and a station to itself
TwiceRequests == {<<14, 58>>, <<10, 58>>, <<31, 58>>, <<UnknownStation, 58>>, <<58, 58>>}

\* the caller keeps the value generate_routes returned, to compare the value
\* of a later call with it
Remember ==
  /\ pc = "idle"
  /\ result.op = "generate"
  /\ previous' = result
  /\ result' = NoResult
  /\ UNCHANGED <<crime_data, pc, call, lines_left, locals, path, best_path, routes,
                 searches, costs_from, graph_writes, runs, loaded, interleaveVars,
                 scoreVars>>

NextTwice ==
  \/ \E m \in CrimeMaps : UpdateCrimeData(m)
  \/ \E r \in TwiceRequests : GenerateRoutes(r[1], r[2])
  \/ DijkstraStep
  \/ Remember

\* the optimizer under generate_routes requests whose values the caller keeps
SpecTwice == Init /\ [][NextTwice]_vars

\* "score_calculator.update_crime_data(crime_data)" and
\* "score_calculator.update_line_performance(LINE_PERFORMANCE)": the two maps
\* are replaced, the baselines stay the constructor's
Refreshed(c, m) == [c EXCEPT !.crime_data = m, !.line_performance = LINE_PERFORMANCE]

\* the handler has handed its map to the optimizer and not yet to the
\* calculator
Refreshing(h) == h # NoMap /\ ~h.set

\* recommend_handler, for the request that is followed: it hands the crime map
\* it loaded to the shared optimizer and to the shared calculator, the three
\* calls running with no step of another request between them
RecommendUpdate(m) ==
  /\ pc = "idle"
  /\ ~Refreshing(loaded)
  /\ crime_data' = m
  /\ calc' = Refreshed(calc, m)
  /\ loaded' = [set |-> TRUE, map |-> m]
  /\ UNCHANGED <<pc, call, lines_left, locals, path, best_path, routes, searches, result,
                 costs_from, graph_writes, runs, previous, interleaveVars, scores>>

\* the first of the three calls alone, "route_optimizer.update_crime_data"
RecommendUpdateOptimizer(m) ==
  /\ pc = "idle"
  /\ ~Refreshing(loaded)
  /\ crime_data' = m
  /\ loaded' = [set |-> FALSE, map |-> m]
  /\ UNCHANGED <<pc, call, lines_left, locals, path, best_path, routes, searches, result,
                 costs_from, graph_writes, runs, previous, interleaveVars, scoreVars>>

\* the two calls on the calculator, after steps of other requests
RecommendUpdateCalculator ==
  /\ pc = "idle"
  /\ Refreshing(loaded)
  /\ calc' = Refreshed(calc, loaded.map)
  /\ loaded' = [set |-> TRUE, map |-> loaded.map]
  /\ UNCHANGED <<scores, routerVars, previous, interleaveVars>>

\* recommend_handler goes on to generate_routes
RecommendGenerate(o, d) ==
  /\ loaded.set
  /\ GenerateRoutes(o, d)

\* recommend_handler of another request running at the same time on the same
\* optimizer and calculator, with no lock: its three calls come between two
\* steps of the request that is followed, and no step of a third request comes
\* between them; its own searches write nothing that is shared
ConcurrentUpdateCrimeData(m) ==
  /\ crime_data' = m
  /\ calc' = Refreshed(calc, m)
  /\ UNCHANGED <<pc, call, lines_left, locals, path, best_path, routes, searches, result,
                 costs_from, graph_writes, runs, callerVars, interleaveVars, scores>>

\* "route_optimizer.update_crime_data" of another request alone: any number
\* of requests stand between this call and their calls on the calculator
ConcurrentUpdateOptimizer(m) ==
  /\ crime_data' = m
  /\ other' = other \cup {m}
  /\ UNCHANGED <<pc, call, lines_left, locals, path, best_path, routes, searches, result,
                 costs_from, graph_writes, runs, callerVars, for_loop, scoreVars>>

\* the two calls on the calculator of another request that has refreshed
\* the optimizer with the map, in any order among such requests; last says
\* that no other request with the same map is left between the calls
ConcurrentUpdateCalculator(m, last) ==
  /\ m \in other
  /\ calc' = Refreshed(calc, m)
  /\ other' = IF last THEN other \ {m} ELSE other
  /\ UNCHANGED <<scores, routerVars, callerVars, for_loop>>

\* one iteration of _dijkstra's while loop with no step of another request
\* inside it
DijkstraIteration ==
  /\ for_loop = NotInFor
  /\ DijkstraStep

\* an iteration of the while loop that expands the node it pops, up to its
\* for loop: the entry is popped, its node is added to visited and
\* get_adjacent_stations is called
DijkstraExpand ==
  /\ pc = "dijkstra"
  /\ for_loop = NotInFor
  /\ Expands(locals, call.dest, call.max_transfers)
  /\ \E cur \in {HeapMin(locals.pq)} :
       /\ locals' = Settle([locals EXCEPT !.pq = locals.pq \ {cur}], <<cur[2], cur[3]>>)
       /\ for_loop' = IF get_adjacent_stations(cur[2], cur[3]) = << >> THEN NotInFor
                      ELSE [cur |-> cur, i |-> 1]
       /\ graph_writes' = AdjacentWrites(cur[2], cur[3]) @@ graph_writes
  /\ path' = Running
  /\ UNCHANGED <<crime_data, pc, call, lines_left, best_path, routes, searches, result,
                 costs_from, runs, scoreVars, callerVars, other>>

\* one pass of "for next_station, next_line, travel_time in adjacent": the
\* weight closure reads self.crime_data as it stands at this call, no lock
\* being held, so the entries of one list can be weighed with different maps
DijkstraRelax ==
  /\ pc = "dijkstra"
  /\ for_loop # NotInFor
  /\ \E adjacent \in {get_adjacent_stations(for_loop.cur[2], for_loop.cur[3])} :
       /\ locals' = Relax(locals, for_loop.cur, SubSeq(adjacent, 1, for_loop.i),
                          for_loop.i, call.wf, crime_data)
       /\ costs_from' = IF /\ ReadsCrime(call.wf)
                           /\ <<adjacent[for_loop.i][1], adjacent[for_loop.i][2]>>
                                \notin locals.visited
                        THEN costs_from \cup {crime_data}
                        ELSE costs_from
       /\ for_loop' = IF for_loop.i = Len(adjacent) THEN NotInFor
                      ELSE [for_loop EXCEPT !.i = for_loop.i + 1]
  /\ UNCHANGED <<crime_data, pc, call, lines_left, path, best_path, routes, searches,
                 result, graph_writes, runs, scoreVars, callerVars, other>>

\* the requests served concurrently: 33rd Street and 59th Street to Grand
\* Central-42nd Street
SharedRequests == {<<19, 58>>, <<27, 58>>}

NextShared ==
  \/ \E m \in CrimeMaps : RecommendUpdate(m)
  \/ \E m \in CrimeMaps : RecommendUpdateOptimizer(m)
  \/ RecommendUpdateCalculator
  \/ \E r \in SharedRequests : RecommendGenerate(r[1], r[2])
  \/ \E m \in CrimeMaps : ConcurrentUpdateCrimeData(m)
  \/ \E m \in CrimeMaps : ConcurrentUpdateOptimizer(m)
  \/ \E m \in CrimeMaps, last \in BOOLEAN : ConcurrentUpdateCalculator(m, last)
  \/ DijkstraIteration
  \/ DijkstraExpand
  \/ DijkstraRelax

\* request handlers interleaving on the shared optimizer and calculator
SpecShared == Init /\ [][NextShared]_vars

\* SubwayGraph.graph as it stands: the constructor's entries with the writes
\* made since
CurrentGraph == graph_writes @@ graph

\* SubwayGraph.get_adjacent_stations, called by the caller
GetAdjacentStations(station, line) ==
  /\ pc = "idle"
  /\ scores = NoScores
  /\ result' = [op |-> "get_adjacent_stations", station |-> station, line |-> line,
                value |-> get_adjacent_stations(station, line)]
  /\ graph_writes' = AdjacentWrites(station, line) @@ graph_writes
  /\ UNCHANGED runs
  /\ UNCHANGED <<crime_data, pc, call, lines_left, locals, path, best_path, routes,
                 searches, costs_from, scoreVars, callerVars, interleaveVars>>

\* SubwayGraph.get_available_lines, called by the caller
GetAvailableLines(station) ==
  /\ pc = "idle"
  /\ scores = NoScores
  /\ result' = [op |-> "get_available_lines", station |-> station,
                value |-> get_available_lines(station)]
  /\ UNCHANGED <<crime_data, pc, call, lines_left, locals, path, best_path, routes,
                 searches, costs_from, graph_writes, runs, scoreVars, callerVars, interleaveVars>>

\* SubwayGraph.validate_station, called by the caller
ValidateStation(station) ==
  /\ pc = "idle"
  /\ scores = NoScores
  /\ result' = [op |-> "validate_station", station |-> station,
                value |-> validate_station(station)]
  /\ UNCHANGED <<crime_data, pc, call, lines_left, locals, path, best_path, routes,
                 searches, costs_from, graph_writes, runs, scoreVars, callerVars, interleaveVars>>

\* the keys looked up: one the graph has, and three it has not (a line that
\* does not stop at the station, the unknown name, and a node that edges lead
\* to but that has no entry of its own)
FrameKeys == {<<14, 4>>, <<14, 1>>, <<UnknownStation, 1>>, <<24, 14>>}

FrameStations == {14, UnknownStation}

FrameFinds == {<<31, 58, "weight_safe">>, <<UnknownStation, 58, "none">>}

FrameGenerates == {<<14, 58>>}

FrameRoutes ==
  {[stations |-> <<14, 58>>, lines |-> <<4>>, total_transfers |-> 0,
    total_time_minutes |-> 45],
   [stations |-> <<31, 58>>, lines |-> <<1, 4>>, total_transfers |-> MaxTransferCount,
    total_time_minutes |-> 45]}

\* one caller making its calls one after the other
NextFrame ==
  \/ \E k \in FrameKeys : GetAdjacentStations(k[1], k[2])
  \/ \E s \in FrameStations : GetAvailableLines(s)
  \/ \E s \in FrameStations : ValidateStation(s)
  \/ \E r \in FrameFinds :
        scores = NoScores /\ FindShortestPath(r[1], r[2], r[3], DefaultMaxTransfers)
  \/ \E r \in FrameGenerates : scores = NoScores /\ GenerateRoutes(r[1], r[2])
  \/ DijkstraStep
  \/ \E m \in CrimeMaps : scores = NoScores /\ RecommendUpdate(m)
  \/ \E m \in CrimeMaps : pc = "idle" /\ ScoreUpdateCrimeData(m)
  \/ \E route \in FrameRoutes : pc = "idle" /\ CalculateRouteScores(route)
  \/ ScoreReturn

\* the graph, the optimizer and the calculator under every kind of call
SpecFrame == Init /\ [][NextFrame]_vars

\* RouteOptimizer.rank_routes_by_criterion, called by the caller with a list of
\* its own; "after" is the caller's list when the call has returned (sorted()
\* builds a new list and leaves its argument alone)
RankRoutesByCriterion(rs, criterion) ==
  /\ pc = "idle"
  /\ result' = [op |-> "rank_routes_by_criterion", routes |-> rs, criterion |-> criterion,
                crime |-> crime_data, after |-> rs,
                value |-> rank_routes_by_criterion(crime_data, rs, criterion)]
  /\ UNCHANGED <<crime_data, pc, call, lines_left, locals, path, best_path, routes,
                 searches, costs_from, graph_writes, runs, scoreVars, callerVars, interleaveVars>>

\* the routes ranked: two have equal summed counts under the larger crime
\* map, two have equal times and two have equal transfer counts
RankPool ==
  {[name |-> "SafeRoute", stations |-> <<58>>, total_time_minutes |-> 5,
    total_transfers |-> 1],
   [name |-> "FastRoute", stations |-> <<14, 31>>, total_time_minutes |-> 5,
    total_transfers |-> 0],
   [name |-> "BalancedRoute", stations |-> <<31, 31, 31, 31>>, total_time_minutes |-> 3,
    total_transfers |-> 1]}

MaxRanked == 3

RankLists == SeqsUpTo(RankPool, MaxRanked)

\* the three criteria and one that is none of them
Criteria == {"safe", "fast", "balanced", "scenic"}

NextRank ==
  \/ \E m \in CrimeMaps : UpdateCrimeData(m)
  \/ \E rs \in RankLists, criterion \in Criteria : RankRoutesByCriterion(rs, criterion)

\* the optimizer under ranking calls
SpecRank == Init /\ [][NextRank]_vars

\* crime maps for the searches that must end: the empty one, and one with a
\* count below zero, under which weight_safe yields edge costs below zero
LiveCrimeMaps == { << >>, (58 :> (0 - 30) @@ 24 :> 15) }

\* searches that end at the destination, and one whose queue runs empty
\* because no transfer is allowed
LiveFinds ==
  {<<31, 14, "weight_safe", 1>>, <<14, 58, "weight_balanced", 1>>, <<10, 58, "none", 0>>}

NextLive ==
  \/ \E m \in LiveCrimeMaps : UpdateCrimeData(m)
  \/ \E r \in LiveFinds : FindShortestPath(r[1], r[2], r[3], r[4])
  \/ DijkstraStep

\* the router when a call that has started keeps taking its steps: the loop
\* of _dijkstra is run by one thread that nothing suspends.  This is the weak
\* fairness of DijkstraStep, with "DijkstraStep is enabled" written out as
\* pc = "dijkstra": a search that is running always can take its next step
SpecLive ==
  /\ Init
  /\ [][NextLive]_vars
  /\ ([]<>(pc # "dijkstra") \/ []<><<DijkstraStep>>_vars)

\* a weight closure of the optimizer is called for an edge to next_station,
\* the optimizer holding a crime map that gives the station the count, or
\* (listed = FALSE) a map that does not list the station
WeighEdge(wf, next_station, listed, count, travel_time, is_transfer) ==
  /\ pc = "idle"
  /\ LET crime == IF listed THEN (next_station :> count) ELSE << >>
     IN  /\ crime_data' = crime
         /\ result' = [op |-> "weight", wf |-> wf, next_station |-> next_station,
                       listed |-> listed, count |-> count,
                       travel_time |-> travel_time, is_transfer |-> is_transfer,
                       value |-> EdgeWeight(wf, crime, next_station, travel_time,
                                            is_transfer)]
  /\ UNCHANGED <<pc, call, lines_left, locals, path, best_path, routes, searches,
                 costs_from, graph_writes, runs, scoreVars, callerVars, interleaveVars>>

\* crime counts below, in and above the range 0..20
CrimeCounts == {0 - 30, 0 - 1, 0, 5, 19, 20, 21, 40}

\* the minutes of the graph's edges
EdgeMinutes == {1, 2, 3}

NextWeights ==
  \E wf \in {"weight_safe", "weight_fast", "weight_balanced"}, listed \in BOOLEAN,
     count \in CrimeCounts, travel_time \in EdgeMinutes, is_transfer \in BOOLEAN :
    WeighEdge(wf, 58, listed, count, travel_time, is_transfer)

\* the weight closures under crime counts of every size
SpecWeights == Init /\ [][NextWeights]_vars

\* a calculator constructed with any of the maps
InitScore ==
  /\ crime_data = << >>
  /\ pc = "idle"
  /\ call = NoCall
  /\ lines_left = << >>
  /\ locals = NoLocals
  /\ path = Running
  /\ best_path = None
  /\ routes = << >>
  /\ searches = << >>
  /\ result = [op |-> "none"]
  /\ \E m \in CrimeMaps, p \in ScorePerfMaps : calc = NewScoreCalculator(m, p)
  /\ scores = NoScores
  /\ previous = NoResult
  /\ loaded = NoMap
  /\ other = NoOther
  /\ for_loop = NotInFor
  /\ costs_from = {}
  /\ graph_writes = << >>
  /\ runs = << >>

NextScore ==
  \/ \E m \in CrimeMaps : ScoreUpdateCrimeData(m)
  \/ \E p \in ScorePerfMaps : ScoreUpdateLinePerformance(p)
  \/ \E stations \in StationLists : CalculateSafetyScore(stations)
  \/ \E lines \in LineLists : CalculateReliabilityScore(lines)
  \/ \E n \in 0..MaxTransferCount, t \in TravelTimes : CalculateEfficiencyScore(n, t)
  \/ \E route \in ScoreRoutes : CalculateRouteScores(route)
  \/ ScoreReturn

\* the score calculator under refreshes and scoring calls
SpecScore == InitScore /\ [][NextScore]_vars

\* longest route scored while the calculator is refreshed
MaxRouteStations == 8

\* the stations a ride on the 1 line passes from its first stop
RouteStationLists ==
  {SubSeq(SUBWAY_LINES[1].stations, 1, k) : k \in 0..MaxRouteStations}

NextRefresh ==
  \/ \E m \in CrimeMaps : ScoreUpdateCrimeData(m)
  \/ \E stations \in RouteStationLists : CalculateSafetyScore(stations)
  \/ ScoreReturn

\* the safety scores of routes under a calculator whose crime map is refreshed
SpecRefresh == InitScore /\ [][NextRefresh]_vars

(***************************************************************************)
(* Reference quantities the properties compare the code's results with     *)
(***************************************************************************)

\* every (station, line) that is a key or the target of an edge
AllNodes ==
  DOMAIN graph \cup
    UNION {{<<graph[k][j][1], graph[k][j][2]>> : j \in 1..Len(graph[k])} : k \in DOMAIN graph}

\* the number a weight closure stands for, in thousandths: the value of its
\* expression in exact arithmetic, which the float it returns approximates
ExactWeight(wf, crime, next_station, travel_time, is_transfer) ==
  LET crimes == Min2(CrimeGet(crime, next_station, 5), 20)
  IN  CASE wf = "weight_safe" ->
             travel_time * (1000 + 100 * crimes) + (IF is_transfer THEN 5000 ELSE 0)
        [] wf = "weight_fast" -> travel_time * 1000 + (IF is_transfer THEN 8000 ELSE 0)
        [] wf = "weight_balanced" ->
             travel_time * 500 + 175 * crimes + (IF is_transfer THEN 900 ELSE 0)
        [] OTHER -> travel_time * 1000

\* the edges into each node: <<from node, minutes>>
InEdges ==
  [n \in AllNodes |->
     UNION {{<<k, graph[k][j][3]>> : j \in {i \in 1..Len(graph[k]) :
                                              <<graph[k][i][1], graph[k][i][2]>> = n}} :
              k \in DOMAIN graph}]

MinOf(S) == CHOOSE x \in S : \A y \in S : x <= y

\* label correcting over the states <<node, transfers made>> with at most
\* max_transfers transfers: D is the cheapest cost found so far, frontier the
\* states whose cost the last round lowered
RECURSIVE CheapestWithin(_, _, _, _, _)
CheapestWithin(D, frontier, wf, crime, max_transfers) ==
  IF frontier = {} THEN D
  ELSE
    LET out(x) == {<<<<e[1], e[2]>>, x[2] + (IF e[2] # x[1][2] THEN 1 ELSE 0)>> :
                     e \in {get_adjacent_stations(x[1][1], x[1][2])[j] :
                              j \in 1..Len(get_adjacent_stations(x[1][1], x[1][2]))}}
        targets == {y \in UNION {out(x) : x \in frontier} : y[2] <= max_transfers}
        into(y) == {<<<<e[1], y[2] - (IF e[1][2] # y[1][2] THEN 1 ELSE 0)>>, e[2]>> :
                      e \in InEdges[y[1]]}
        cand(y) == MinOf({D[i[1]] + ExactWeight(wf, crime, y[1][1], i[2],
                                                i[1][1][2] # y[1][2]) :
                            i \in {i \in into(y) : i[1] \in frontier}})
        improved == {y \in targets : y \notin DOMAIN D \/ cand(y) < D[y]}
        D2 == [y \in DOMAIN D \cup improved |-> IF y \in improved THEN cand(y) ELSE D[y]]
    IN  CheapestWithin(D2, improved, wf, crime, max_transfers)

\* the least costs of the paths from (origin, start_line) to the nodes of the
\* destination station with at most max_transfers transfers; empty when there
\* is no such path
CostsWithin(origin, start_line, dest, wf, crime, max_transfers) ==
  LET start == <<<<origin, start_line>>, 0>>
      D == CheapestWithin([x \in {start} |-> 0], {start}, wf, crime, max_transfers)
  IN  {D[x] : x \in {x \in DOMAIN D : x[1][1] = dest}}

\* the request the router is serving or has just served, and the crime map its
\* weights were computed from
Request == IF call.op # "none" THEN call ELSE result
RequestCrime == IF call.op # "none" THEN crime_data ELSE result.crime

(***************************************************************************)
(* Properties                                                              *)
(***************************************************************************)

\* C2: when a per-line search succeeds, no path from (origin, start line) to
\* the destination station with at most max_transfers transfers costs strictly
\* less than the total_distance the search returns.
C2_FirstPopIsCheapest ==
  path.returned /\ path.value.found =>
    \A c \in CostsWithin(Request.origin, path.start_line, Request.dest, Request.wf,
                          RequestCrime, Request.max_transfers) :
      c >= Thousandths(path.value.total_distance)

\* C3: for two known, distinct stations find_shortest_path returns None only
\* when no start line has a path to the destination within max_transfers
\* transfers.
C3_NoneOnlyWhenNoPath ==
  (/\ result.op = "find"
   /\ validate_station(result.origin) /\ validate_station(result.dest)
   /\ result.origin # result.dest
   /\ ~result.value.found)
  => \A l \in get_available_lines(result.origin) :
       CostsWithin(result.origin, l, result.dest, result.wf, result.crime,
                   result.max_transfers) = {}

\* C4: every route find_shortest_path returns has at most max_transfers
\* transfers.
C4_TransfersWithinCeiling ==
  result.op = "find" /\ result.value.found =>
    result.value.total_transfers <= result.max_transfers

\* the cost of a path under a weight function: its edges re-scored
PathCost(wf, crime, edges) ==
  SumSeq([j \in 1..Len(edges) |->
            ExactWeight(wf, crime, edges[j][2][1], edges[j][3], edges[j][4])])

\* the weight function a route is named for
FunctionNamed(name) ==
  CASE name = "SafeRoute" -> "weight_safe"
    [] name = "FastRoute" -> "weight_fast"
    [] name = "BalancedRoute" -> "weight_balanced"

\* C1: among the routes generate_routes returns, the route named for a weight
\* function has the least cost under that function.
C1_NamedRouteIsCheapest ==
  result.op = "generate" /\ result.value.found =>
    \A i \in 1..Len(searches), j \in 1..Len(searches) :
      searches[i].route.found /\ searches[j].route.found =>
        PathCost(FunctionNamed(searches[i].name), result.crime, searches[i].edges)
          <= PathCost(FunctionNamed(searches[i].name), result.crime, searches[j].edges)

\* a returned list in which one route is strictly cheaper under its own
\* function than another returned route
C1_Witness ==
  /\ result.op = "generate" /\ result.value.found /\ result.searched
  /\ \E i \in 1..Len(searches), j \in 1..Len(searches) :
       /\ searches[i].route.found /\ searches[j].route.found
       /\ PathCost(FunctionNamed(searches[i].name), result.crime, searches[i].edges)
            < PathCost(FunctionNamed(searches[i].name), result.crime, searches[j].edges)

\* C9: generate_routes runs the Safe, Fast and Balanced searches whatever the
\* others return, returns the routes of exactly those that succeeded, in that
\* order and each under its own name, and returns None exactly when all fail.
C9_RoutesAreTheSuccessfulSearches ==
  result.op = "generate" =>
    LET ok == SelectSeq(searches, LAMBDA s : s.route.found)
    IN  /\ Len(searches) = 3
        /\ \A k \in 1..3 : searches[k].name = RoutePlan[k].name
        /\ Len(routes) = Len(ok)
        /\ \A k \in 1..Len(ok) : routes[k] = [name |-> ok[k].name] @@ ok[k].route
        /\ (ok = << >>) <=> ~result.value.found
        /\ ok # << >> => result.value.routes = routes

\* three searches have run and succeeded, and the three routes are returned
C9_Witness ==
  /\ result.op = "generate" /\ result.searched /\ result.value.found
  /\ Len(result.value.routes) = 3
  /\ result.value.routes[2].name = "FastRoute"

\* C10: for a station s of the network find_shortest_path(s, s, ...) returns
\* the route [s] with time 0, no transfer and no segment, running no search.
C10_SameStationIsTrivial ==
  (result.op = "find" /\ result.origin = result.dest /\ validate_station(result.origin))
  => /\ result.value.found
     /\ result.value.stations = <<result.origin>>
     /\ result.value.total_time_minutes = 0
     /\ result.value.total_transfers = 0
     /\ result.value.segments = << >>
     /\ ~result.searched

\* a station has been routed to itself under a crime-weighted function
C10_Witness ==
  /\ result.op = "find" /\ result.origin = result.dest /\ result.origin \in Destinations
  /\ result.wf = "weight_safe" /\ result.max_transfers = 0
  /\ result.value.found

\* C5: after any refreshes the two baselines are the statistics of the maps
\* the calculator currently holds.
C5_BaselinesFollowTheMaps ==
  /\ calc.crime_baseline = CalculateCrimeBaseline(calc.crime_data)
  /\ calc.reliability_baseline = CalculateReliabilityBaseline(calc.line_performance)

\* C6: for a non-empty crime map, a station list with a lower or equal average
\* crime never gets a lower safety score than another.
C6_SaferNeverScoresLower ==
  (/\ scores.op = "calculate_safety_score"
   /\ scores.stations # << >>
   /\ DOMAIN calc.crime_data # {})
  => \A B \in StationLists \ {<< >>} :
       FracLeq(AverageOf(calc.crime_data, calc.crime_baseline.mean, scores.stations),
               AverageOf(calc.crime_data, calc.crime_baseline.mean, B))
       => scores.value >= calculate_safety_score(calc.crime_data, calc.crime_baseline, B)

\* C7 as stated: the efficiency scores for 0, 1, 2, 3 transfers are 10, 9, 7, 6.
C7_HalvesRoundUp ==
  scores.op = "calculate_efficiency_score" /\ scores.num_transfers \in 0..3 =>
    scores.value = <<10, 9, 7, 6>>[scores.num_transfers + 1]

\* C7 amended: the efficiency scores for 0, 1, 2, 3 transfers are 10, 8, 7, 6:
\* the halves round to the even integer, 8.5 to 8 and 5.5 to 6.
C7_HalvesRoundToEven ==
  scores.op = "calculate_efficiency_score" /\ scores.num_transfers \in 0..3 =>
    scores.value = <<10, 8, 7, 6>>[scores.num_transfers + 1]

\* the efficiency score of one transfer has been computed
C7_Witness ==
  /\ scores.op = "calculate_efficiency_score"
  /\ scores.num_transfers = 1
  /\ scores.value = 8

\* C8: the three scores calculate_route_scores returns are integers in 0..10,
\* whatever the route and the maps.
C8_ScoresInRange ==
  scores.op = "calculate_route_scores" =>
    /\ scores.value.safety_score \in 0..10
    /\ scores.value.reliability_score \in 0..10
    /\ scores.value.efficiency_score \in 0..10

\* a route with a station and a line missing from the maps and more transfers
\* than the penalty cap has been scored on empty maps
C8_Witness ==
  /\ scores.op = "calculate_route_scores"
  /\ calc.crime_data = << >> /\ calc.line_performance = << >>
  /\ scores.route.stations = <<31>> /\ scores.route.lines = <<4>>
  /\ scores.route.total_transfers = MaxTransferCount
  /\ scores.value.efficiency_score = 0

\* C11: when the origin or the destination is no station of the graph,
\* find_shortest_path returns None, and returns it before any search step.
C11_UnknownStationIsNotFound ==
  (/\ result.op = "find"
   /\ (~validate_station(result.origin) \/ ~validate_station(result.dest)))
  => /\ result.value = None
     /\ ~result.searched

\* the unknown name has been routed to itself
C11_Witness ==
  /\ result.op = "find"
  /\ result.origin = UnknownStation /\ result.dest = UnknownStation
  /\ ~result.value.found

\* the names and the station sequences of the routes a call returned
NamesAndStations(value) ==
  IF value.found
  THEN [k \in 1..Len(value.routes) |->
          <<value.routes[k].name, value.routes[k].stations>>]
  ELSE << >>

\* C12: two generate_routes calls with the same origin and destination under
\* the same crime map return the same number of routes with the same names
\* and the same station sequences.
C12_SameRequestSameRoutes ==
  (/\ result.op = "generate" /\ previous.op = "generate"
   /\ result.origin = previous.origin /\ result.dest = previous.dest
   /\ result.crime = previous.crime)
  => /\ result.value.found = previous.value.found
     /\ NamesAndStations(result.value) = NamesAndStations(previous.value)

\* a request that returns three routes has been made a second time
C12_Witness ==
  /\ result.op = "generate" /\ previous.op = "generate"
  /\ result.origin = previous.origin /\ result.dest = previous.dest
  /\ result.crime = previous.crime
  /\ result.searched /\ result.value.found
  /\ Len(result.value.routes) = 3

\* C13: with the crime map {"Times Square-42nd Street": 15}, generate_routes
\* from "Times Square-42nd Street" to "34th Street-Herald Square" returns at
\* least one route, and each route has no negative transfer count, at least
\* two stops and three scores in 0..10.
C13_TimesSquareToHeraldSquare ==
  (/\ result.op = "generate"
   /\ result.origin = StationId("Times Square-42nd Street")
   /\ result.dest = StationId("34th Street-Herald Square")
   /\ result.crime = ExampleCrimeMap)
  => /\ result.value.found
     /\ Len(result.value.routes) >= 1
     /\ \A k \in 1..Len(result.value.routes) :
          LET route == result.value.routes[k]
              s == calculate_route_scores(
                     NewScoreCalculator(result.crime, LINE_PERFORMANCE), route)
          IN  /\ route.total_transfers >= 0
              /\ route.total_stops >= 2
              /\ s.safety_score \in 0..10
              /\ s.reliability_score \in 0..10
              /\ s.efficiency_score \in 0..10

\* C14: for a non-empty crime map, a station list whose average crime equals
\* the p75 value of the map (the element at index floor(0.75 * n) of the sorted
\* values) has a safety score of 8 or 9.
C14_AverageAtP75ScoresInBand ==
  (/\ scores.op = "calculate_safety_score"
   /\ scores.stations # << >>
   /\ DOMAIN calc.crime_data # {}
   /\ AverageOf(calc.crime_data, calc.crime_baseline.mean, scores.stations)
        = <<CalculateCrimeBaseline(calc.crime_data).p75, 1>>)
  => scores.value \in {8, 9}

\* C15: for a non-empty performance map the reliability score is the tier of
\* the share of lines whose on-time percentage is strictly below the route's
\* average, and a line list with a higher or equal average never gets a lower
\* score than another.
C15_MoreReliableNeverScoresLower ==
  (/\ scores.op = "calculate_reliability_score"
   /\ scores.lines # << >>
   /\ DOMAIN calc.line_performance # {})
  => LET perf == calc.line_performance
         avg(ls) == AverageOf(perf, calc.reliability_baseline.mean, ls)
         below(ls) == {l \in DOMAIN perf : FracLess(<<perf[l], 1>>, avg(ls))}
     IN  /\ scores.value = TierScore(Cardinality(below(scores.lines)),
                                     Cardinality(DOMAIN perf))
         /\ \A B \in LineLists \ {<< >>} :
              FracLeq(avg(B), avg(scores.lines))
              => scores.value
                   >= calculate_reliability_score(perf, calc.reliability_baseline, B)

\* a line list has been scored strictly higher than a list with a strictly
\* lower average on-time percentage
C15_Witness ==
  /\ scores.op = "calculate_reliability_score"
  /\ scores.lines # << >>
  /\ DOMAIN calc.line_performance # {}
  /\ \E B \in LineLists \ {<< >>} :
       /\ FracLess(AverageOf(calc.line_performance, calc.reliability_baseline.mean, B),
                   AverageOf(calc.line_performance, calc.reliability_baseline.mean,
                             scores.lines))
       /\ scores.value > calculate_reliability_score(calc.line_performance,
                                                     calc.reliability_baseline, B)

\* C16: the efficiency score is 10 for no transfer and 4 for four transfers,
\* and for every transfer count it is the same whatever the travel time and
\* whatever maps the calculator holds.
C16_EfficiencyIsStructural ==
  /\ scores.op = "calculate_efficiency_score" =>
       /\ scores.num_transfers = 0 => scores.value = 10
       /\ scores.num_transfers = 4 => scores.value = 4
       /\ \A t \in TravelTimes :
            calculate_efficiency_score(scores.num_transfers, t) = scores.value
  /\ scores.op = "calculate_route_scores" =>
       \A t \in TravelTimes :
         calculate_efficiency_score(scores.route.total_transfers, t)
           = scores.value.efficiency_score

\* four transfers over 45 minutes have been scored on a refreshed calculator
C16_Witness ==
  /\ scores.op = "calculate_efficiency_score"
  /\ scores.num_transfers = 4 /\ scores.travel_time_minutes = 45
  /\ scores.value = 4
  /\ calc.crime_data # << >>

\* the minutes of the graph's edges from one node to another
GraphMinutes(from, to) ==
  {get_adjacent_stations(from[1], from[2])[j][3] :
     j \in {i \in 1..Len(get_adjacent_stations(from[1], from[2])) :
              /\ get_adjacent_stations(from[1], from[2])[i][1] = to[1]
              /\ get_adjacent_stations(from[1], from[2])[i][2] = to[2]}}

\* the sums of graph minutes along a path, one edge of the graph taken for
\* each step
RECURSIVE PathMinutes(_)
PathMinutes(edges) ==
  IF edges = << >> THEN {0}
  ELSE {a + b : a \in GraphMinutes(edges[1][1], edges[1][2]),
                b \in PathMinutes(Tail(edges))}

\* the nodes a path goes through
PathNodes(edges) == [j \in 1..Len(edges) |-> <<edges[j][1], edges[j][2]>>]

\* C17: the total_time_minutes of every returned route is the sum of the
\* graph's minutes along its path, and one path found under two weight
\* functions has one total time.
C17_TotalTimeIsRawMinutes ==
  result.op = "generate" =>
    /\ \A k \in 1..Len(searches) :
         searches[k].route.found =>
           searches[k].route.total_time_minutes \in PathMinutes(searches[k].edges)
    /\ \A i \in 1..Len(searches), j \in 1..Len(searches) :
         (/\ searches[i].route.found /\ searches[j].route.found
          /\ PathNodes(searches[i].edges) = PathNodes(searches[j].edges))
         => searches[i].route.total_time_minutes = searches[j].route.total_time_minutes

\* the Safe and the Fast search have returned the same path, with a transfer,
\* and its cost under the Safe weights is not its time
C17_Witness ==
  /\ result.op = "generate" /\ result.searched /\ Len(searches) = 3
  /\ searches[1].route.found /\ searches[2].route.found
  /\ PathNodes(searches[1].edges) = PathNodes(searches[2].edges)
  /\ searches[1].route.total_transfers > 0
  /\ PathCost("weight_safe", result.crime, searches[1].edges)
       # 1000 * searches[1].route.total_time_minutes

\* C18: when request handlers interleave on the shared optimizer, every edge
\* cost of a request's searches is computed from the crime map that request
\* loaded.
C18_CostsFromOwnMap ==
  (loaded.set /\ call.op = "generate") =>
    \A m \in costs_from : m = loaded.map

\* C19: the graph is static after construction: after any sequence of lookups,
\* searches, crime-map refreshes and scoring calls its node set and its
\* adjacency lists are the constructor's, and the crime map handed to
\* update_crime_data is the map the optimizer holds, unmodified by any search
\* or scoring call; the calculator's map changes only when it is refreshed
C19_GraphAndCrimeMapAreNotWritten ==
  /\ [](/\ DOMAIN CurrentGraph = DOMAIN graph
        /\ \A key \in DOMAIN graph : CurrentGraph[key] = graph[key]
        /\ loaded.set => crime_data = loaded.map)
  /\ [][calc'.crime_data # calc.crime_data => scores = NoScores /\ scores' = NoScores]_vars

\* a search has expanded nodes and returned a path, a lookup of a key the
\* graph lacks has been made, and a route has been scored, all after a crime
\* map was handed over
C19_Witness ==
  /\ loaded.set /\ loaded.map # << >>
  /\ result.op = "get_adjacent_stations"
  /\ <<result.station, result.line>> \notin DOMAIN graph
  /\ searches # << >>
  /\ scores # NoScores

\* the summed crime count of a route's stations, a station the map lacks
\* counting 5
RECURSIVE CrimeTotal(_, _)
CrimeTotal(crime, stations) ==
  IF stations = << >> THEN 0
  ELSE (IF Head(stations) \in DOMAIN crime THEN crime[Head(stations)] ELSE 5)
       + CrimeTotal(crime, Tail(stations))

\* the key the criterion orders by
CriterionKey(crime, route, criterion) ==
  IF criterion = "safe" THEN CrimeTotal(crime, route.stations)
  ELSE IF criterion = "fast" THEN route.total_time_minutes
  ELSE route.total_transfers

\* C20: rank_routes_by_criterion is a pure reordering: under "safe", "fast" and
\* "balanced" the value holds the input's routes, each as it was, in ascending
\* order of summed crime count (5 for a missing station), of total_time_minutes
\* and of total_transfers, routes of equal key in input order; under any other
\* criterion the value is the input in its order; the input list is as it was
C20_RankingIsAStableReordering ==
  result.op = "rank_routes_by_criterion" =>
    LET rs == result.routes
        v == result.value
        n == Len(rs)
        K(r) == CriterionKey(result.crime, r, result.criterion)
    IN  /\ result.after = rs
        /\ Len(v) = n
        /\ IF result.criterion \in {"safe", "fast", "balanced"}
           THEN \E p \in [1..n -> 1..n] :
                  /\ \A i, j \in 1..n : i # j => p[i] # p[j]
                  /\ \A i \in 1..n : v[i] = rs[p[i]]
                  /\ \A i, j \in 1..n :
                       i < j => \/ K(v[i]) < K(v[j])
                                \/ K(v[i]) = K(v[j]) /\ p[i] < p[j]
           ELSE v = rs

\* three different routes were ranked by crime count under a map that names
\* some of their stations; two of them tie and keep their order, and the
\* value is in another order than the input
C20_Witness ==
  /\ result.op = "rank_routes_by_criterion"
  /\ result.criterion = "safe"
  /\ result.crime # << >>
  /\ Len(result.routes) = 3
  /\ \A i, j \in 1..3 : i # j => result.routes[i] # result.routes[j]
  /\ result.value # result.routes
  /\ \E i \in 1..2 :
       CrimeTotal(result.crime, result.value[i].stations)
         = CrimeTotal(result.crime, result.value[i + 1].stations)

\* whether a and b are consecutive stations of line l's station list
ConsecutiveOn(l, a, b) ==
  \E k \in 1..Len(SUBWAY_LINES) :
    /\ SUBWAY_LINES[k].line = l
    /\ LET stations == SUBWAY_LINES[k].stations
       IN  \E i \in 1..(Len(stations) - 1) :
             \/ stations[i] = a /\ stations[i + 1] = b
             \/ stations[i] = b /\ stations[i + 1] = a

\* whether the transfer table declares the edge from the node
DeclaredTransfer(key, edge) ==
  \E k \in 1..Len(TRANSFER_POINTS) :
    /\ TRANSFER_POINTS[k].from = key
    /\ \E j \in 1..Len(TRANSFER_POINTS[k].to) : TRANSFER_POINTS[k].to[j] = edge

\* C21: every edge of the graph leads to the next or previous station on the
\* same line, or to a declared transfer target at the same station with a
\* walking cost above zero; no edge joins two different stations on different
\* lines and no same-line edge skips stations
C21_EdgesAreRidesOrSameStationTransfers ==
  \A key \in DOMAIN CurrentGraph :
    \A j \in 1..Len(CurrentGraph[key]) :
      LET edge == CurrentGraph[key][j]
      IN  \/ edge[2] = key[2] /\ ConsecutiveOn(key[2], key[1], edge[1])
          \/ edge[1] = key[1] /\ edge[3] > 0 /\ DeclaredTransfer(key, edge)

\* the edges listed at a node
EdgesAt(key) ==
  IF key \in DOMAIN CurrentGraph
  THEN {CurrentGraph[key][j] : j \in 1..Len(CurrentGraph[key])}
  ELSE {}

\* the base time of the pair at 0-based index i of a list of n stations
BaseTime(i, n) ==
  IF i % 3 = 0 /\ i # 0 /\ i # n - 2 THEN 3 ELSE 2

\* whether the edge at the node is the ride of a consecutive pair of the
\* node's line, in either direction, with the pair's base time
RideOfAPair(key, edge) ==
  \E k \in 1..Len(SUBWAY_LINES) :
    LET stations == SUBWAY_LINES[k].stations
        n == Len(stations)
    IN  /\ SUBWAY_LINES[k].line = key[2]
        /\ edge[2] = key[2]
        /\ \E i \in 0..(n - 2) :
             /\ edge[3] = BaseTime(i, n)
             /\ \/ stations[i + 1] = key[1] /\ stations[i + 2] = edge[1]
                \/ stations[i + 2] = key[1] /\ stations[i + 1] = edge[1]

\* C22: for every line and every consecutive pair (a, b) at index i of its
\* list both edges (a,L)->(b,L) and (b,L)->(a,L) exist with the same base
\* time, 3 minutes when i mod 3 = 0 and the pair is neither the first nor the
\* last of the line and 2 minutes otherwise; every declared transfer is an
\* edge in its own direction, and the graph has no other edge, so the mirror
\* of a transfer exists only if it is declared (or is the ride of a pair)
C22_GraphIsBuiltFromPairsAndTransfers ==
  /\ \A k \in 1..Len(SUBWAY_LINES) :
       LET L == SUBWAY_LINES[k].line
           stations == SUBWAY_LINES[k].stations
           n == Len(stations)
       IN  \A i \in 0..(n - 2) :
             /\ <<stations[i + 2], L, BaseTime(i, n)>> \in EdgesAt(<<stations[i + 1], L>>)
             /\ <<stations[i + 1], L, BaseTime(i, n)>> \in EdgesAt(<<stations[i + 2], L>>)
  /\ \A k \in 1..Len(TRANSFER_POINTS) :
       \A j \in 1..Len(TRANSFER_POINTS[k].to) :
         TRANSFER_POINTS[k].to[j] \in EdgesAt(TRANSFER_POINTS[k].from)
  /\ \A key \in DOMAIN CurrentGraph :
       \A edge \in EdgesAt(key) : RideOfAPair(key, edge) \/ DeclaredTransfer(key, edge)

\* the graph has been built and looked up: the node of line 1 at station 24
\* has a three-minute ride and a transfer, and the transfer from (67, 8) to
\* (61, 8) taking one minute has no mirror
C22_Witness ==
  /\ result.op = "get_adjacent_stations"
  /\ result.value # << >>
  /\ \E edge \in EdgesAt(<<24, 1>>) : edge[2] = 1 /\ edge[3] = 3
  /\ \E edge \in EdgesAt(<<24, 1>>) : edge[2] # 1
  /\ <<61, 8, 1>> \in EdgesAt(<<67, 8>>)
  /\ <<67, 8, 1>> \notin EdgesAt(<<61, 8>>)

\* a step of _dijkstra's while loop inside one per-line search: a queue entry
\* of a settled node is dropped and nothing else changes, a node popped for
\* the first time is settled, and no node is ever unsettled
SettlesOnce ==
  (pc = "dijkstra" /\ pc' = "dijkstra" /\ call' = call /\ locals.pq # {}) =>
    LET cur == HeapMin(locals.pq)
        node == <<cur[2], cur[3]>>
    IN  /\ locals.visited \subseteq locals'.visited
        /\ node \in locals.visited =>
             locals' = [locals EXCEPT !.pq = locals.pq \ {cur}]
        /\ node \notin locals.visited => node \in locals'.visited

\* a per-line search returns only when a node at the destination is popped or
\* when the queue is empty
EndsAtDestinationOrEmptyQueue ==
  (pc = "dijkstra" /\ path'.returned) =>
    IF locals.pq = {} THEN ~path'.value.found
    ELSE LET cur == HeapMin(locals.pq)
         IN  /\ cur[2] = call.dest
             /\ <<cur[2], cur[3]>> \notin locals.visited
             /\ path'.value.found
             /\ path'.value.end_state = <<cur[2], cur[3]>>

\* C23: every find_shortest_path call terminates; within one per-line search
\* each (station, line) node is settled and expanded at most once, later queue
\* entries for it being skipped, and the search ends when a node at the
\* destination is popped or when the queue empties
C23_EverySearchTerminates ==
  /\ (pc = "dijkstra") ~> (pc = "idle")
  /\ [][SettlesOnce /\ EndsAtDestinationOrEmptyQueue]_vars

\* a search is about to pop a queue entry of a node that is settled already,
\* while costs below zero are in use
C23_Witness ==
  /\ pc = "dijkstra"
  /\ locals.pq # {}
  /\ <<HeapMin(locals.pq)[2], HeapMin(locals.pq)[3]>> \in locals.visited
  /\ \E s \in DOMAIN crime_data : crime_data[s] < 0

\* the (station, line) nodes a path visits, from its first to its last
NodesOnPath(edges) == <<edges[1][1]>> \o [j \in 1..Len(edges) |-> edges[j][2]]

\* C24: every non-trivial route a search returns is a path of the graph: its
\* stations are those of the reconstructed nodes, from the origin to the
\* destination, every step from node to node is an edge of the adjacency
\* structure with the minutes recorded for it, and no node occurs twice
C24_RouteIsAPathOfTheGraph ==
  \A k \in 1..Len(searches) :
    (searches[k].route.found /\ searches[k].edges # << >>) =>
      LET edges == searches[k].edges
          nodes == NodesOnPath(edges)
          stations == searches[k].route.stations
      IN  /\ stations = [j \in 1..Len(nodes) |-> nodes[j][1]]
          /\ stations[1] = Request.origin
          /\ stations[Len(stations)] = Request.dest
          /\ \A j \in 1..Len(edges) :
               /\ edges[j][1] = nodes[j]
               /\ edges[j][1] \in DOMAIN graph
               /\ \E i \in 1..Len(graph[edges[j][1]]) :
                    graph[edges[j][1]][i] = <<edges[j][2][1], edges[j][2][2], edges[j][3]>>
          /\ \A i, j \in 1..Len(nodes) : i # j => nodes[i] # nodes[j]

\* generate_routes has returned a route of at least three steps that changes
\* line on the way
C24_Witness ==
  /\ result.op = "generate" /\ result.searched
  /\ \E k \in 1..Len(searches) :
       /\ searches[k].route.found
       /\ Len(searches[k].edges) >= 3
       /\ searches[k].route.total_transfers >= 1

\* the positions on a path where the line is another than at the node before
LineChanges(nodes) == {j \in 2..Len(nodes) : nodes[j][2] # nodes[j - 1][2]}

\* C25: the segments of every returned non-trivial route: the path's nodes
\* split at the line changes into maximal runs of one line; there is one ride
\* segment per run, of as many stops as the run has steps and of 2 minutes per
\* stop, and one transfer segment of 2 minutes at each line change; rides and
\* transfers alternate, a ride first and last; the transfer segments number
\* total_transfers, and the stops of the rides plus the transfer segments
\* number total_stops - 1
C25_SegmentsFollowThePath ==
  \A k \in 1..Len(searches) :
    (searches[k].route.found /\ searches[k].edges # << >>) =>
      LET route == searches[k].route
          segs  == route.segments
          nodes == NodesOnPath(searches[k].edges)
          at    == SortedSeq(LineChanges(nodes))
          c     == Len(at)
          first(t) == IF t = 1 THEN 1 ELSE at[t - 1]
          last(t)  == IF t = c + 1 THEN Len(nodes) ELSE at[t] - 1
      IN  /\ Len(segs) = 2 * c + 1
          /\ \A t \in 1..(c + 1) :
               LET ride == segs[2 * t - 1]
               IN  /\ ride.type = "ride"
                   /\ ride.line = nodes[first(t)][2]
                   /\ ride.from = nodes[first(t)][1]
                   /\ ride.to = nodes[last(t)][1]
                   /\ ride.stops = last(t) - first(t)
                   /\ ride.time_minutes = 2 * ride.stops
          /\ \A t \in 1..c :
               LET transfer == segs[2 * t]
               IN  /\ transfer.type = "transfer"
                   /\ transfer.station = nodes[at[t]][1]
                   /\ transfer.from_line = nodes[at[t] - 1][2]
                   /\ transfer.to_line = nodes[at[t]][2]
                   /\ transfer.time_minutes = 2
          /\ c = route.total_transfers
          /\ SumSeq([t \in 1..(c + 1) |-> segs[2 * t - 1].stops]) + c
               = route.total_stops - 1

\* generate_routes has returned a route that rides, changes line and rides on
C25_Witness ==
  /\ result.op = "generate" /\ result.searched
  /\ \E k \in 1..Len(searches) :
       /\ searches[k].route.found
       /\ Len(searches[k].route.segments) = 3
       /\ searches[k].route.segments[1].stops > 0
       /\ searches[k].route.segments[3].stops > 0

\* a count clamped to 0..20
Clamped(c) == IF c < 0 THEN 0 ELSE IF c > 20 THEN 20 ELSE c

\* C26: the Safe and the Balanced edge cost use the crime count of the edge's
\* destination station capped at 20, and 5 for a station the map does not
\* list: with c = min(count, 20), which is the count clamped to [0, 20] for
\* every count of 0 and above, Safe is t * (1 + c/10), plus 5 on a transfer,
\* and Balanced is 0.5 t + 0.35 * (0.5 c), plus 0.15 * 6 on a transfer (costs
\* in thousandths); a count below 0 is not raised to 0
C26_CostsUseTheCountCappedAt20 ==
  (result.op = "weight" /\ result.wf \in {"weight_safe", "weight_balanced"}) =>
    LET c == IF ~result.listed THEN 5
             ELSE IF result.count >= 0 THEN Clamped(result.count) ELSE result.count
        t == result.travel_time
    IN  /\ result.value = EdgeWeight(result.wf, (result.next_station :> c),
                                     result.next_station, t, result.is_transfer)
        /\ result.wf = "weight_safe" =>
             Thousandths(result.value) = t * (1000 + 100 * c)
                              + (IF result.is_transfer THEN 5000 ELSE 0)
        /\ result.wf = "weight_balanced" =>
             Thousandths(result.value) = 500 * t + 175 * c
                              + (IF result.is_transfer THEN 900 ELSE 0)

\* a transfer edge weighed by the Safe closure into a station with a count
\* above 20
C26_Witness ==
  /\ result.op = "weight"
  /\ result.wf = "weight_safe"
  /\ result.listed
  /\ result.count = 40
  /\ result.travel_time = 2
  /\ result.is_transfer
  /\ Thousandths(result.value) = 11000

\* C26 as stated: the costs are those of the count clamped to [0, 20] for
\* every integer count, a count below 0 counting as 0
C26_CostsUseTheClampedCount ==
  (result.op = "weight" /\ result.wf \in {"weight_safe", "weight_balanced"}) =>
    LET c == IF result.listed THEN Clamped(result.count) ELSE 5
        t == result.travel_time
    IN  /\ result.value = EdgeWeight(result.wf, (result.next_station :> c),
                                     result.next_station, t, result.is_transfer)
        /\ result.wf = "weight_safe" =>
             Thousandths(result.value) = t * (1000 + 100 * c)
                              + (IF result.is_transfer THEN 5000 ELSE 0)
        /\ result.wf = "weight_balanced" =>
             Thousandths(result.value) = 500 * t + 175 * c
                              + (IF result.is_transfer THEN 900 ELSE 0)

\* the routes of a returned value that carry the name
RoutesNamed(value, name) ==
  IF value.found
  THEN {value.routes[k] : k \in {j \in 1..Len(value.routes) : value.routes[j].name = name}}
  ELSE {}

\* C27: the Fast search has no crime term: two generate_routes calls with the
\* same origin and destination return the same FastRoute (stations, lines,
\* segments, total time, transfers and stops) whatever crime maps were loaded
\* before them
C27_FastRouteIgnoresTheCrimeMap ==
  (/\ result.op = "generate" /\ previous.op = "generate"
   /\ result.origin = previous.origin /\ result.dest = previous.dest)
  => RoutesNamed(result.value, "FastRoute") = RoutesNamed(previous.value, "FastRoute")

\* one request has been served under two different crime maps and returned a
\* FastRoute both times
C27_Witness ==
  /\ result.op = "generate" /\ previous.op = "generate"
  /\ result.origin = previous.origin /\ result.dest = previous.dest
  /\ result.crime # previous.crime
  /\ result.searched /\ previous.searched
  /\ RoutesNamed(result.value, "FastRoute") # {}
  /\ RoutesNamed(previous.value, "FastRoute") # {}

\* C28: find_shortest_path runs one search per line available at the origin,
\* in sorted line order, and returns the route of the run with the lowest
\* total weighted cost, whatever the transfer counts; of several runs with
\* that cost the one of the earliest line is kept; it returns NotFound exactly
\* when every run fails
C28_CheapestRunEarliestLineWins ==
  (result.op = "find" /\ result.searched) =>
    LET start_lines == SortedSeq(get_available_lines(result.origin))
        found == {i \in 1..Len(runs) : runs[i].found}
    IN  /\ Len(runs) = Len(start_lines)
        /\ \A i \in 1..Len(runs) : runs[i].start_line = start_lines[i]
        /\ result.value.found <=> found # {}
        /\ found # {} =>
             \E i \in found :
               /\ \A j \in found : CostLeq(runs[i].total_distance,
                                             runs[j].total_distance)
               /\ \A j \in found :
                    runs[j].total_distance = runs[i].total_distance => i <= j
               /\ result.value = runs[i].route

\* a call has returned after searches from three lines or more: two of them
\* found paths of the lowest cost with different routes, and one found a
\* dearer path or none
C28_Witness ==
  /\ result.op = "find" /\ result.searched /\ result.value.found
  /\ Len(runs) >= 3
  /\ \E i, j \in 1..Len(runs) :
       /\ i < j /\ runs[i].found /\ runs[j].found
       /\ runs[i].total_distance = runs[j].total_distance
       /\ runs[i].route # runs[j].route
       /\ result.value = runs[i].route
  /\ \E k \in 1..Len(runs) :
       \/ ~runs[k].found
       \/ \E i \in 1..Len(runs) :
            runs[i].found /\ CostLess(runs[i].total_distance, runs[k].total_distance)

\* C29: for every non-trivial route a search found, the reported line list has
\* no two equal adjacent entries and total_transfers + 1 entries, and
\* total_transfers is the number of line changes along the reconstructed path
\* and the transfer counter of the queue entry popped at the destination
C29_LinesAndTransfersAgree ==
  \A i \in 1..Len(runs) :
    (runs[i].found /\ runs[i].edges # << >>) =>
      LET route == runs[i].route
          nodes == NodesOnPath(runs[i].edges)
      IN  /\ \A j \in 1..(Len(route.lines) - 1) : route.lines[j] # route.lines[j + 1]
          /\ Len(route.lines) = route.total_transfers + 1
          /\ route.total_transfers = Cardinality(LineChanges(nodes))
          /\ route.total_transfers = runs[i].transfers

\* a call has returned a route that changes line once and rides several stops
\* on each line
C29_Witness ==
  /\ result.op = "find" /\ result.searched /\ result.value.found
  /\ result.value.total_transfers = 1
  /\ result.value.total_stops >= 5
  /\ \E i \in 1..Len(runs) : runs[i].found /\ runs[i].route = result.value

\* C30: whenever the loaded crime map is empty, at construction or after
\* update_crime_data with an empty map, calculate_safety_score returns 6 for
\* every non-empty station list and 5 for the empty station list.
C30_EmptyMapScoresSixOrFive ==
  (scores.op = "calculate_safety_score" /\ DOMAIN calc.crime_data = {})
  => scores.value = IF scores.stations = << >> THEN 5 ELSE 6
====
